---- MODULE Spec2Model ----
(***************************************************************************)
(* Verification model of the asset-graph core:                             *)
(*   - Graph (node map, typed edges, orphan pruning)                       *)
(*   - propagateSymbols (down pass, up pass, final sort)                   *)
(* A graph value is a record [nodes, edges, rootNodeId, threw]:            *)
(*   nodes      : function NodeId -> payload (DOMAIN = ids in the map)     *)
(*   edges      : sequence of [from, to, type], in insertion order         *)
(*   rootNodeId : NodeId or Null                                           *)
(*   threw      : TRUE once an Error / failed assert has been raised; the  *)
(*                remaining statements of the call are then skipped        *)
(***************************************************************************)
EXTENDS Integers, Sequences, FiniteSets, TLC

Null == -1

\* ---------------------------------------------------------------- bounds
MaxNodes == 3
MaxEdges == 3
EdgeTypes == {1, 2}

\* ------------------------------------------------------- sequence helpers
Range(s) == {s[i] : i \in 1..Len(s)}

RECURSIVE SeqFilterEdges(_, _, _, _)
\* edges of `es` (in order) whose field selected by `side` equals n
SeqFilterEdges(es, i, side, n) ==
  IF i > Len(es) THEN <<>>
  ELSE LET e == es[i]
           hit == IF side = "to" THEN e.to = n ELSE e.from = n
       IN IF hit THEN <<e>> \o SeqFilterEdges(es, i + 1, side, n)
          ELSE SeqFilterEdges(es, i + 1, side, n)

RECURSIVE SeqRemoveEdge(_, _, _)
SeqRemoveEdge(es, i, e) ==
  IF i > Len(es) THEN <<>>
  ELSE IF es[i] = e THEN SeqRemoveEdge(es, i + 1, e)
  ELSE <<es[i]>> \o SeqRemoveEdge(es, i + 1, e)

RECURSIVE SetToSeq(_)
\* the members of a set of node ids in ascending order
SetToSeq(S) ==
  IF S = {} THEN <<>>
  ELSE LET n == CHOOSE m \in S : \A k \in S : m <= k
       IN <<n>> \o SetToSeq(S \ {n})

\* ------------------------------------------------------------------ Graph
Edge(from, to, type) == [from |-> from, to |-> to, type |-> type]

hasNode(g, id) == id \in DOMAIN g.nodes

Throw(g) == [g EXCEPT !.threw = TRUE]

\* AdjacencyList.hasEdge
hasEdge(g, from, to, type) == Edge(from, to, type) \in Range(g.edges)

\* AdjacencyList.getInboundEdgesByType / getOutboundEdgesByType
getInboundEdgesByType(g, n) == SeqFilterEdges(g.edges, 1, "to", n)
getOutboundEdgesByType(g, n) == SeqFilterEdges(g.edges, 1, "from", n)

\* AdjacencyList.removeEdge
adjRemoveEdge(g, from, to, type) ==
  [g EXCEPT !.edges = SeqRemoveEdge(g.edges, 1, Edge(from, to, type))]

\* nodes from which n can be reached over edges of any type (n included):
\* the set visited by traverseAncestors(n, ..., ALL_EDGE_TYPES)
RECURSIVE AncestorsClosure(_, _)
AncestorsClosure(g, S) ==
  LET T == S \cup {e.from : e \in {x \in Range(g.edges) : x.to \in S}}
  IN IF T = S THEN S ELSE AncestorsClosure(g, T)

\* Graph.isOrphanedNode (the caller has checked hasNode)
isOrphanedNode(g, n) ==
  IF g.rootNodeId = Null
    THEN Len(getInboundEdgesByType(g, n)) = 0
    ELSE g.rootNodeId \notin AncestorsClosure(g, {n})

RECURSIVE removeNode(_, _), removeEdge(_, _, _, _, _), removeEdgeList(_, _, _, _)

\* Graph.removeEdge
removeEdge(g, from, to, type, removeOrphans) ==
  IF g.threw THEN g
  ELSE IF ~hasEdge(g, from, to, type) THEN Throw(g)
  ELSE LET g1 == adjRemoveEdge(g, from, to, type)
       IN IF ~removeOrphans THEN g1
          ELSE IF ~hasNode(g1, to) THEN Throw(g1)
          ELSE IF isOrphanedNode(g1, to) THEN removeNode(g1, to)
          ELSE g1

\* the two for-loops of removeNode over a snapshot of the edge list
removeEdgeList(g, es, i, removeOrphans) ==
  IF i > Len(es) \/ g.threw THEN g
  ELSE removeEdgeList(
         removeEdge(g, es[i].from, es[i].to, es[i].type, removeOrphans),
         es, i + 1, removeOrphans)

\* Graph.removeNode
removeNode(g, n) ==
  IF g.threw THEN g
  ELSE IF ~hasNode(g, n) THEN Throw(g)
  ELSE LET g1 == removeEdgeList(g, getInboundEdgesByType(g, n), 1, FALSE)
           g2 == IF g1.threw THEN g1
                 ELSE removeEdgeList(g1, getOutboundEdgesByType(g1, n), 1, TRUE)
       IN IF g2.threw THEN g2
          ELSE IF ~hasNode(g2, n) THEN Throw(g2)
          ELSE [g2 EXCEPT !.nodes = [m \in DOMAIN g2.nodes \ {n} |-> g2.nodes[m]]]

\* variant: the edge is appended without looking for the triple
addEdgeAppend(g, from, to, type) ==
  IF type = 0 THEN Throw(g)
  ELSE IF ~hasNode(g, from) THEN Throw(g)
  ELSE IF ~hasNode(g, to) THEN Throw(g)
  ELSE [g EXCEPT !.edges = Append(g.edges, Edge(from, to, type))]

\* what AdjacencyList.addEdge returns: false if the triple already has an edge
addEdgeReturns(g, from, to, type) == ~hasEdge(g, from, to, type)

\* Graph.addEdge
addEdge(g, from, to, type) ==
  IF type = 0 THEN Throw(g)
  ELSE IF ~hasNode(g, from) THEN Throw(g)
  ELSE IF ~hasNode(g, to) THEN Throw(g)
  ELSE IF hasEdge(g, from, to, type) THEN g
  ELSE [g EXCEPT !.edges = Append(g.edges, Edge(from, to, type))]

\* variant: the node is set without looking for the id
updateNodeUnchecked(g, nodeId, node) ==
  [g EXCEPT !.nodes = [m \in DOMAIN g.nodes \cup {nodeId} |->
                         IF m = nodeId THEN node ELSE g.nodes[m]]]

\* Graph.updateNode
updateNode(g, nodeId, node) ==
  IF ~hasNode(g, nodeId) THEN Throw(g)
  ELSE [g EXCEPT !.nodes = [m \in DOMAIN g.nodes \cup {nodeId} |->
                              IF m = nodeId THEN node ELSE g.nodes[m]]]

\* nodes reachable from the root over edges of any type
RECURSIVE DescendantsClosure(_, _)
DescendantsClosure(g, S) ==
  LET T == S \cup {e.to : e \in {x \in Range(g.edges) : x.from \in S}}
  IN IF T = S THEN S ELSE DescendantsClosure(g, T)

ReachableFromRoot(g) ==
  IF g.rootNodeId = Null \/ ~hasNode(g, g.rootNodeId) THEN {}
  ELSE DescendantsClosure(g, {g.rootNodeId})

\* ======================================================= symbol propagation
\* SymbolIds are interned integers; db.starSymbol and db.defaultSymbol are two
\* of them.  SymA, SymB are exported names, Loc1, Loc2 local identifiers.
Star == 1
Default == 2
SymB == Default + 1
SymA == SymB + 1
Loc1 == SymA + 1
Loc2 == Loc1 + 1

\* Set.add on an insertion-ordered Set
SeqAdd(seq, x) == IF x \in Range(seq) THEN seq ELSE Append(seq, x)

RECURSIVE SeqAddAll(_, _, _)
SeqAddAll(seq, xs, i) ==
  IF i > Len(xs) THEN seq ELSE SeqAddAll(SeqAdd(seq, xs[i]), xs, i + 1)

RECURSIVE SeqSelect(_, _, _)
\* the elements of seq that are members of S, in order
SeqSelect(seq, i, S) ==
  IF i > Len(seq) THEN <<>>
  ELSE IF seq[i] \in S THEN <<seq[i]>> \o SeqSelect(seq, i + 1, S)
  ELSE SeqSelect(seq, i + 1, S)

\* Graph.getNodeIdsConnectedFrom / getNodeIdsConnectedTo with the default type 1
RECURSIVE ConnectedSeq(_, _, _, _)
ConnectedSeq(es, i, side, n) ==
  IF i > Len(es) THEN <<>>
  ELSE LET e == es[i]
           hit == e.type = 1 /\ (IF side = "from" THEN e.from = n ELSE e.to = n)
           other == IF side = "from" THEN e.to ELSE e.from
       IN IF hit THEN <<other>> \o ConnectedSeq(es, i + 1, side, n)
          ELSE ConnectedSeq(es, i + 1, side, n)

getNodeIdsConnectedFrom(g, n) == ConnectedSeq(g.edges, 1, "from", n)
getNodeIdsConnectedTo(g, n) == ConnectedSeq(g.edges, 1, "to", n)

\* AssetGraph.getIncomingDependencies: the dependencies connected to the asset
\* directly or through an asset group
RECURSIVE IncomingVia(_, _, _)
IncomingVia(g, parents, i) ==
  IF i > Len(parents) THEN <<>>
  ELSE LET p == parents[i]
           deps == IF g.nodes[p].type = "dependency" THEN <<p>>
                   ELSE SeqSelect(getNodeIdsConnectedTo(g, p), 1,
                          {d \in DOMAIN g.nodes : g.nodes[d].type = "dependency"})
       IN deps \o IncomingVia(g, parents, i + 1)

getIncomingDependencies(g, asset) == IncomingVia(g, getNodeIdsConnectedTo(g, asset), 1)

\* symbols.find(s => s.exported === x): index of the first such entry, 0 if none
FindExported(symbols, x) ==
  IF \E i \in 1..Len(symbols) : symbols[i].exported = x
    THEN CHOOSE i \in 1..Len(symbols) :
           /\ symbols[i].exported = x
           /\ \A j \in 1..(i - 1) : symbols[j].exported # x
    ELSE 0

\* symbols?.find(s => s.exported === starSymbol)?.local === starSymbol
isNamespaceDep(dep) ==
  /\ dep.hasSymbols
  /\ LET i == FindExported(dep.symbols, Star)
     IN i # 0 /\ dep.symbols[i].local = Star

\* variant: the inverse map collects the local names (set.add(s.local))
assetSymbolsInverseLocals(asset, local) ==
  {asset.symbols[i].local : i \in {j \in 1..Len(asset.symbols) : asset.symbols[j].local = local}}

\* assetSymbolsInverse.get(local): the exported names declared with this local
assetSymbolsInverse(asset, local) ==
  {asset.symbols[i].exported : i \in {j \in 1..Len(asset.symbols) : asset.symbols[j].local = local}}

declares(asset, x) == \E i \in 1..Len(asset.symbols) : asset.symbols[i].exported = x

RECURSIVE ConcatDown(_, _, _)
\* the usedSymbolsDown of the incoming dependencies that have symbols, in
\* iteration order of the two nested loops
ConcatDown(g, incoming, i) ==
  IF i > Len(incoming) THEN <<>>
  ELSE (IF g.nodes[incoming[i]].hasSymbols THEN g.nodes[incoming[i]].usedSymbolsDown ELSE <<>>)
       \o ConcatDown(g, incoming, i + 1)

\* --- down visitor, part 1: what the incoming dependencies request
downRequested(g, A, incoming, outgoing) ==
  LET asset == g.nodes[A]
      hasNamespaceOutgoingDeps == \E k \in 1..Len(outgoing) : isNamespaceDep(g.nodes[outgoing[k]])
      req == ConcatDown(g, incoming, 1)
      own(x) == ~asset.hasSymbols \/ declares(asset, x) \/ declares(asset, Star)
      isEntry == \E k \in 1..Len(incoming) :
                   ~g.nodes[incoming[k]].hasSymbols /\ g.nodes[incoming[k]].sourceAssetId = Null
      addAll == \E k \in 1..Len(incoming) :
                   ~g.nodes[incoming[k]].hasSymbols /\ g.nodes[incoming[k]].sourceAssetId # Null
      used0 == IF Len(incoming) = 0 THEN {Star}
               ELSE {x \in Range(req) : x = Star \/ own(x)}
      ns == IF Len(incoming) = 0 THEN <<Star>>
            ELSE SeqAddAll(<<>>,
                   SeqSelect(req, 1,
                     {x \in Range(req) :
                        x = Star \/ (~own(x) /\ hasNamespaceOutgoingDeps /\ x # Default)}), 1)
  IN [isEntry |-> isEntry, addAll |-> addAll,
      \* `for (let sym of assetSymbols)` with assetSymbols == null is a TypeError
      threw |-> addAll /\ ~asset.hasSymbols,
      usedSymbols |-> IF addAll /\ asset.hasSymbols
                        THEN used0 \cup {asset.symbols[i].exported : i \in 1..Len(asset.symbols)}
                        ELSE used0,
      namespaceReexportedSymbols |-> ns]

RECURSIVE distributeSymbolsNoDelete(_, _, _, _, _)
\* variant: a used re-export is forwarded but stays in the asset's usedSymbols
distributeSymbolsNoDelete(asset, depSymbols, i, down, used) ==
  IF i > Len(depSymbols) THEN [down |-> down, used |-> used]
  ELSE LET sym == depSymbols[i]
           R == assetSymbolsInverse(asset, sym.local)
       IN IF sym.local = Star
            THEN distributeSymbolsNoDelete(asset, depSymbols, i + 1, down, used)
          ELSE IF ~asset.hasSymbols \/ ~sym.weak \/ R = {}
            THEN distributeSymbolsNoDelete(asset, depSymbols, i + 1,
                                           SeqAdd(down, sym.exported), used)
          ELSE IF Star \in used
            THEN distributeSymbolsNoDelete(asset, depSymbols, i + 1,
                                           SeqAdd(down, sym.exported), used \ R)
          ELSE IF R \cap used # {}
            THEN distributeSymbolsNoDelete(asset, depSymbols, i + 1,
                                           SeqAdd(down, sym.exported), used)
          ELSE distributeSymbolsNoDelete(asset, depSymbols, i + 1, down, used)

RECURSIVE distributeSymbols(_, _, _, _, _)
\* --- down visitor, the loop over the declared symbols of one outgoing dep
distributeSymbols(asset, depSymbols, i, down, used) ==
  IF i > Len(depSymbols) THEN [down |-> down, used |-> used]
  ELSE LET sym == depSymbols[i]
           R == assetSymbolsInverse(asset, sym.local)
       IN IF sym.local = Star
            THEN distributeSymbols(asset, depSymbols, i + 1, down, used)
          ELSE IF ~asset.hasSymbols \/ ~sym.weak
            THEN distributeSymbols(asset, depSymbols, i + 1, SeqAdd(down, sym.exported), used)
          ELSE IF R = {}
            THEN distributeSymbols(asset, depSymbols, i + 1, SeqAdd(down, sym.exported), used)
          ELSE IF Star \in used
            THEN distributeSymbols(asset, depSymbols, i + 1, SeqAdd(down, sym.exported), used \ R)
          ELSE IF R \cap used # {}
            THEN distributeSymbols(asset, depSymbols, i + 1, SeqAdd(down, sym.exported), used \ R)
          ELSE distributeSymbols(asset, depSymbols, i + 1, down, used)

\* variant: the symbols are distributed whether or not the asset is used
depUsedSymbolsDownUngated(asset, dep, rq, used) ==
  IF ~dep.hasSymbols THEN [down |-> <<>>, used |-> used, skip |-> TRUE]
  ELSE LET d0 == IF isNamespaceDep(dep)
                   THEN (IF rq.addAll THEN <<Star>> ELSE rq.namespaceReexportedSymbols)
                   ELSE <<>>
           r == distributeSymbols(asset, dep.symbols, 1, d0, used)
       IN [down |-> r.down, used |-> r.used, skip |-> FALSE]

\* the new usedSymbolsDown of one outgoing dependency and the asset's
\* usedSymbols after it (skip = the `continue` on a dependency without symbols)
depUsedSymbolsDown(asset, dep, rq, used) ==
  IF asset.sideEffects \/ rq.addAll \/ rq.isEntry \/ used # {}
       \/ Len(rq.namespaceReexportedSymbols) > 0
    THEN IF ~dep.hasSymbols THEN [down |-> <<>>, used |-> used, skip |-> TRUE]
         ELSE LET d0 == IF isNamespaceDep(dep)
                          THEN (IF rq.addAll THEN <<Star>> ELSE rq.namespaceReexportedSymbols)
                          ELSE <<>>
                  r == distributeSymbols(asset, dep.symbols, 1, d0, used)
              IN [down |-> r.down, used |-> r.used, skip |-> FALSE]
    ELSE [down |-> <<>>, used |-> used, skip |-> FALSE]

RECURSIVE downOutgoing(_, _, _, _, _, _)
\* --- down visitor, part 2: distribute to the outgoing dependencies
\* c = [g, changedDown, ...]; changedDown is changedDepsUsedSymbolsUpDirtyDown
downOutgoing(c, A, outgoing, i, rq, used) ==
  IF i > Len(outgoing)
    THEN [c EXCEPT !.g.nodes[A].usedSymbols = used]
  ELSE LET d == outgoing[i]
           dep == c.g.nodes[d]
           r == depUsedSymbolsDown(c.g.nodes[A], dep, rq, used)
           changed == ~r.skip /\ Range(dep.usedSymbolsDown) # Range(r.down)
           upDirtyDown == dep.usedSymbolsUpDirtyDown \/ changed
           dep1 == [dep EXCEPT !.usedSymbolsDown = r.down,
                               !.usedSymbolsDownDirty = @ \/ changed,
                               !.usedSymbolsUpDirtyDown = upDirtyDown]
           c1 == [c EXCEPT !.g.nodes[d] = dep1,
                           !.changedDown = IF ~r.skip /\ upDirtyDown
                                             THEN SeqAdd(@, d) ELSE @]
       IN downOutgoing(c1, A, outgoing, i + 1, rq, r.used)

\* the asset visitor passed to propagateSymbolsDown
downVisit(c, A, incoming, outgoing) ==
  LET rq == downRequested(c.g, A, incoming, outgoing)
      c0 == [c EXCEPT !.g.nodes[A].usedSymbols = rq.usedSymbols]
  IN IF rq.threw THEN [c0 EXCEPT !.g.threw = TRUE]
     ELSE downOutgoing(c0, A, outgoing, 1, rq, rq.usedSymbols)

\* Set.delete on an insertion-ordered Set
SeqDel(seq, x) == SeqSelect(seq, 1, Range(seq) \ {x})

\* bound on the iterations of each work-queue loop; exhausting it is recorded
\* as c.diverged
MaxSteps == 40

RECURSIVE downChildrenAlways(_, _, _, _, _)
\* variant: every child is queued, dirty or not
downChildrenAlways(c, queue, outgoing, i, wasNodeDirty) ==
  IF i > Len(outgoing) THEN [c |-> c, queue |-> queue]
  ELSE LET child == outgoing[i]
           childNode == c.g.nodes[child]
       IN IF childNode.type \in {"asset", "asset_group"} /\ wasNodeDirty
            THEN downChildrenAlways([c EXCEPT !.g.nodes[child].usedSymbolsDownDirty = TRUE],
                                    SeqAdd(queue, child), outgoing, i + 1, wasNodeDirty)
          ELSE downChildrenAlways(c, SeqAdd(queue, child), outgoing, i + 1, wasNodeDirty)

RECURSIVE downChildren(_, _, _, _, _)
\* propagateSymbolsDown: `for (let child of outgoing)`
downChildren(c, queue, outgoing, i, wasNodeDirty) ==
  IF i > Len(outgoing) THEN [c |-> c, queue |-> queue]
  ELSE LET child == outgoing[i]
           childNode == c.g.nodes[child]
       IN IF childNode.type \in {"asset", "asset_group"} /\ wasNodeDirty
            THEN downChildren([c EXCEPT !.g.nodes[child].usedSymbolsDownDirty = TRUE],
                              SeqAdd(queue, child), outgoing, i + 1, wasNodeDirty)
          ELSE IF childNode.type = "dependency" /\ childNode.usedSymbolsDownDirty
            THEN downChildren(c, SeqAdd(queue, child), outgoing, i + 1, wasNodeDirty)
          ELSE downChildren(c, queue, outgoing, i + 1, wasNodeDirty)

RECURSIVE downLoop(_, _, _, _)
\* propagateSymbolsDown: `while (queue.size > 0)`
downLoop(c, queue, unreachedAssets, fuel) ==
  IF Len(queue) = 0 \/ c.g.threw THEN c
  ELSE IF fuel = 0 THEN [c EXCEPT !.diverged = TRUE]
  ELSE
    LET queuedNodeId == Head(queue)
        unreached1 == SeqDel(unreachedAssets, queuedNodeId)
    IN IF ~hasNode(c.g, queuedNodeId) THEN [c EXCEPT !.g.threw = TRUE]
       ELSE
         LET outgoing == getNodeIdsConnectedFrom(c.g, queuedNodeId)
             node == c.g.nodes[queuedNodeId]
             wasNodeDirty == node.type \in {"dependency", "asset_group"}
                             /\ node.usedSymbolsDownDirty
             c1 == IF node.type \in {"dependency", "asset_group"}
                     THEN [c EXCEPT !.g.nodes[queuedNodeId].usedSymbolsDownDirty = FALSE]
                   ELSE IF node.type = "asset" /\ node.usedSymbolsDownDirty
                     THEN IF \E k \in 1..Len(outgoing) : c.g.nodes[outgoing[k]].type # "dependency"
                            THEN [c EXCEPT !.g.threw = TRUE]
                            ELSE LET v == downVisit(c, queuedNodeId,
                                            getIncomingDependencies(c.g, queuedNodeId), outgoing)
                                 IN IF v.g.threw THEN v
                                    ELSE [v EXCEPT !.g.nodes[queuedNodeId].usedSymbolsDownDirty = FALSE,
                                                   !.downVisited = @ \cup {queuedNodeId}]
                   ELSE c
         IN IF c1.g.threw THEN c1
            ELSE LET r == downChildren(c1, Tail(queue), outgoing, 1, wasNodeDirty)
                     refill == Len(r.queue) = 0 /\ Len(unreached1) > 0
                 IN downLoop(r.c,
                             IF refill THEN <<Head(unreached1)>> ELSE r.queue,
                             IF refill THEN Tail(unreached1) ELSE unreached1,
                             fuel - 1)

\* propagateSymbolsDown
propagateSymbolsDown(c, changedAssets, assetGroupsWithRemovedParents) ==
  IF Len(changedAssets) = 0 /\ Len(assetGroupsWithRemovedParents) = 0 THEN c
  ELSE LET unreachedAssets == SeqAddAll(SeqAddAll(<<>>, changedAssets, 1),
                                        assetGroupsWithRemovedParents, 1)
       IN downLoop(c, <<Head(unreachedAssets)>>, Tail(unreachedAssets), MaxSteps)

\* ---------------------------------------------------------------- up visitor
\* A JS Map is a sequence of entries [key, asset, symbol] in insertion order;
\* a null / undefined value (ambiguous) has asset = symbol = Null.
Res(asset, symbol) == [asset |-> asset, symbol |-> symbol]
NoRes == Res(Null, Null)
Entry(k, v) == [key |-> k, asset |-> v.asset, symbol |-> v.symbol]
MapKeys(m) == {m[i].key : i \in 1..Len(m)}
MapHas(m, k) == k \in MapKeys(m)
MapGet(m, k) == LET e == m[CHOOSE i \in 1..Len(m) : m[i].key = k] IN Res(e.asset, e.symbol)
\* Map.set: an existing key keeps its position
MapSet(m, k, v) ==
  IF MapHas(m, k) THEN [i \in 1..Len(m) |-> IF m[i].key = k THEN Entry(k, v) ELSE m[i]]
  ELSE Append(m, Entry(k, v))

RECURSIVE InverseSeq(_, _, _)
\* assetSymbolsInverse.get(local) in insertion order
InverseSeq(symbols, i, local) ==
  IF i > Len(symbols) THEN <<>>
  ELSE LET rest == InverseSeq(symbols, i + 1, local)
       IN IF symbols[i].local = local
            THEN <<symbols[i].exported>> \o SeqDel(rest, symbols[i].exported)
            ELSE rest

\* u = [c, rx, src]: rx is reexportedSymbols, src is reexportedSymbolsSource
\* (its entries hold the dependency in the asset field)
reexportOne(u, A, s, sResolved, outgoingDep) ==
  IF MapHas(u.rx, s)
    THEN [u EXCEPT
           !.c.log = IF Star \notin u.c.g.nodes[A].usedSymbols
                       THEN @ \cup {[asset |-> A, symbol |-> s,
                                     dep1 |-> MapGet(u.src, s).asset, dep2 |-> outgoingDep]}
                       ELSE @,
           !.c.g.nodes[A].usedSymbols = @ \cup {Star},
           !.rx = MapSet(@, s, Res(A, s))]
    ELSE [u EXCEPT !.rx = MapSet(@, s, sResolved),
                   !.src = MapSet(@, s, Res(outgoingDep, Null))]

RECURSIVE excludedFill(_, _, _)
\* outgoingDep.usedSymbolsDown.forEach((_, s) => outgoingDep.usedSymbolsUp.set(s, null))
excludedFill(up, down, i) ==
  IF i > Len(down) THEN up ELSE excludedFill(MapSet(up, down[i], NoRes), down, i + 1)

RECURSIVE reexportNamespaceAll(_, _, _, _, _)
\* variant: `default` is re-exported through the namespace like any name
reexportNamespaceAll(u, A, d, up, i) ==
  IF i > Len(up) THEN u
  ELSE reexportNamespaceAll(reexportOne(u, A, up[i].key, Res(up[i].asset, up[i].symbol), d),
                            A, d, up, i + 1)

RECURSIVE reexportNamespace(_, _, _, _, _)
\* outgoingDep.usedSymbolsUp.forEach(...) of a `*` -> `*` dependency
reexportNamespace(u, A, d, up, i) ==
  IF i > Len(up) THEN u
  ELSE IF up[i].key = Default THEN reexportNamespace(u, A, d, up, i + 1)
  ELSE reexportNamespace(reexportOne(u, A, up[i].key, Res(up[i].asset, up[i].symbol), d),
                         A, d, up, i + 1)

RECURSIVE reexportEach(_, _, _, _, _, _)
\* reexported.forEach(s => ...)
reexportEach(u, A, d, reexported, j, sResolved) ==
  IF j > Len(reexported) THEN u
  ELSE reexportEach(reexportOne(u, A, reexported[j], sResolved, d),
                    A, d, reexported, j + 1, sResolved)

RECURSIVE reexportNamed(_, _, _, _, _)
\* `for (let [s, sResolved] of outgoingDep.usedSymbolsUp)`
reexportNamed(u, A, d, up, i) ==
  IF i > Len(up) THEN u
  ELSE LET dep == u.c.g.nodes[d]
           asset == u.c.g.nodes[A]
           k == FindExported(dep.symbols, up[i].key)
       IN IF up[i].key \notin Range(dep.usedSymbolsDown) \/ k = 0 \/ ~asset.hasSymbols
            THEN reexportNamed(u, A, d, up, i + 1)
          ELSE reexportNamed(
                 reexportEach(u, A, d, InverseSeq(asset.symbols, 1, dep.symbols[k].local), 1,
                              Res(up[i].asset, up[i].symbol)),
                 A, d, up, i + 1)

RECURSIVE upOutgoing(_, _, _, _)
\* up visitor, part 1: `for (let outgoingDep of outgoingDeps)`
upOutgoing(u, A, outgoing, i) ==
  IF i > Len(outgoing) THEN u
  ELSE LET d == outgoing[i]
           dep == u.c.g.nodes[d]
       IN IF ~dep.hasSymbols THEN upOutgoing(u, A, outgoing, i + 1)
          ELSE LET isExcluded == Len(getNodeIdsConnectedFrom(u.c.g, d)) = 0
                   up == IF isExcluded
                           THEN excludedFill(dep.usedSymbolsUp, dep.usedSymbolsDown, 1)
                           ELSE dep.usedSymbolsUp
                   u1 == [u EXCEPT !.c.g.nodes[d].usedSymbolsUp = up]
                   u2 == IF isNamespaceDep(dep) THEN reexportNamespace(u1, A, d, up, 1) ELSE u1
               IN upOutgoing(reexportNamed(u2, A, d, up, 1), A, outgoing, i + 1)

\* usedSymbolsUpAmbiguous
\* variant: a key of the old map is ambiguous whatever its old value was
usedSymbolsUpAmbiguousAnyOld(old, current, s, value) ==
  IF MapHas(old, s) THEN MapSet(current, s, NoRes) ELSE MapSet(current, s, value)

\* usedSymbolsUpAmbiguous
usedSymbolsUpAmbiguous(old, current, s, value) ==
  IF MapHas(old, s) /\ MapGet(old, s) # value
    THEN MapSet(current, s, NoRes)
    ELSE MapSet(current, s, value)

\* equalMap
equalMap(a, b) == Range(a) = Range(b)

RECURSIVE resolveIncomingForwarding(_, _, _, _, _, _, _, _)
\* variant: a recorded re-export is forwarded whether or not the asset has
\* side effects
resolveIncomingForwarding(g, A, I, rx, old, down, i, r) ==
  IF i > Len(down) THEN r
  ELSE LET s == down[i]
           asset == g.nodes[A]
           r1 == IF ~asset.hasSymbols \/ asset.isolated \/ s = Star \/ s \in asset.usedSymbols
                   THEN [r EXCEPT !.up = usedSymbolsUpAmbiguous(old, @, s, Res(A, s))]
                 ELSE IF MapHas(rx, s)
                   THEN LET reexport == MapGet(rx, s)
                            v == IF reexport # NoRes THEN reexport ELSE Res(A, s)
                        IN [r EXCEPT !.up = usedSymbolsUpAmbiguous(old, @, s, v)]
                 ELSE IF ~isNamespaceDep(g.nodes[I])
                   THEN [r EXCEPT !.errors = Append(@,
                           [dep |-> I, symbol |-> s,
                            resolution |-> getNodeIdsConnectedFrom(g, I)[1]])]
                 ELSE r
       IN resolveIncomingForwarding(g, A, I, rx, old, down, i + 1, r1)

RECURSIVE resolveIncoming(_, _, _, _, _, _, _, _)
\* up visitor: `for (let s of incomingDep.usedSymbolsDown)`
\* r = [up, errors]
resolveIncoming(g, A, I, rx, old, down, i, r) ==
  IF i > Len(down) THEN r
  ELSE LET s == down[i]
           asset == g.nodes[A]
           r1 == IF ~asset.hasSymbols \/ asset.isolated \/ s = Star \/ s \in asset.usedSymbols
                   THEN [r EXCEPT !.up = usedSymbolsUpAmbiguous(old, @, s, Res(A, s))]
                 ELSE IF MapHas(rx, s)
                   THEN LET reexport == MapGet(rx, s)
                            v == IF ~asset.sideEffects /\ reexport # NoRes
                                   THEN reexport ELSE Res(A, s)
                        IN [r EXCEPT !.up = usedSymbolsUpAmbiguous(old, @, s, v)]
                 ELSE IF ~isNamespaceDep(g.nodes[I])
                   THEN [r EXCEPT !.errors = Append(@,
                           [dep |-> I, symbol |-> s,
                            resolution |-> getNodeIdsConnectedFrom(g, I)[1]])]
                 ELSE r
       IN resolveIncoming(g, A, I, rx, old, down, i + 1, r1)

RECURSIVE upIncoming(_, _, _, _, _)
\* up visitor, part 2: `for (let incomingDep of incomingDeps)`
\* v = [c, errors]
upIncoming(v, A, rx, incoming, i) ==
  IF i > Len(incoming) \/ v.c.g.threw THEN v
  ELSE LET I == incoming[i]
           dep == v.c.g.nodes[I]
           old == dep.usedSymbolsUp
       IN IF ~dep.hasSymbols
            THEN upIncoming([v EXCEPT !.c.g.nodes[I].usedSymbolsUp = <<>>],
                            A, rx, incoming, i + 1)
          ELSE LET r == resolveIncoming(v.c.g, A, I, rx, old, dep.usedSymbolsDown, 1,
                                        [up |-> <<>>, errors |-> v.errors])
                   changed == ~equalMap(old, r.up)
                   assetGroups == getNodeIdsConnectedFrom(v.c.g, I)
                   excluded == /\ Len(r.up) = 0
                               /\ Len(assetGroups) = 1
                               /\ v.c.g.nodes[assetGroups[1]].type = "asset_group"
                               /\ v.c.g.nodes[assetGroups[1]].sideEffects = FALSE
                   bad == Len(r.up) = 0 /\ Len(assetGroups) > 1
                   dep1 == [dep EXCEPT !.usedSymbolsUp = r.up,
                                       !.usedSymbolsUpDirtyUp = @ \/ changed,
                                       !.excluded = excluded]
                   v1 == [c |-> [v.c EXCEPT !.g.nodes[I] = dep1,
                                            !.g.threw = bad,
                                            !.changedDeps = IF changed THEN @ \cup {I} ELSE @],
                          errors |-> r.errors]
               IN upIncoming(v1, A, rx, incoming, i + 1)

\* the asset visitor passed to propagateSymbolsUp; returns [c, errors]
upVisit(c, A, incoming, outgoing) ==
  LET u == upOutgoing([c |-> c, rx |-> <<>>, src |-> <<>>], A, outgoing, 1)
  IN upIncoming([c |-> u.c, errors |-> <<>>], A, u.rx, incoming, 1)

\* ------------------------------------------------------- propagateSymbolsUp
\* getDependencyResolution (`if (child)` is false for NodeId 0 as well)
getDependencyResolution(g, depId) ==
  LET connected == getNodeIdsConnectedFrom(g, depId)
  IN IF Len(connected) = 0 \/ connected[1] = 0 THEN <<>>
     ELSE IF g.nodes[connected[1]].type = "asset_group"
       THEN getNodeIdsConnectedFrom(g, connected[1])
       ELSE <<connected[1]>>

RECURSIVE resolutionsReversed(_, _, _)
\* [...changedDepsUsedSymbolsUpDirtyDown].reverse().flatMap(getDependencyResolution)
resolutionsReversed(g, ids, i) ==
  IF i = 0 THEN <<>>
  ELSE getDependencyResolution(g, ids[i]) \o resolutionsReversed(g, ids, i - 1)

RECURSIVE clearUpDirtyDown(_, _, _, _)
\* `for (let dep of incoming) if (dep.usedSymbolsUpDirtyDown) ...`
clearUpDirtyDown(c, A, incoming, i) ==
  IF i > Len(incoming) THEN c
  ELSE IF c.g.nodes[incoming[i]].usedSymbolsUpDirtyDown
    THEN clearUpDirtyDown([c EXCEPT !.g.nodes[incoming[i]].usedSymbolsUpDirtyDown = FALSE,
                                    !.g.nodes[A].usedSymbolsUpDirty = TRUE],
                          A, incoming, i + 1)
  ELSE clearUpDirtyDown(c, A, incoming, i + 1)

RECURSIVE clearUpDirtyUp(_, _, _, _)
\* `for (let dep of outgoing) if (dep.usedSymbolsUpDirtyUp) ...`
clearUpDirtyUp(c, A, outgoing, i) ==
  IF i > Len(outgoing) THEN c
  ELSE IF c.g.nodes[outgoing[i]].usedSymbolsUpDirtyUp
    THEN clearUpDirtyUp([c EXCEPT !.g.nodes[outgoing[i]].usedSymbolsUpDirtyUp = FALSE,
                                  !.g.nodes[A].usedSymbolsUpDirty = TRUE],
                        A, outgoing, i + 1)
  ELSE clearUpDirtyUp(c, A, outgoing, i + 1)

\* errors.set(nodeId, e) / errors.delete(nodeId)
ErrSet(errors, n, e) ==
  [m \in DOMAIN errors \cup {n} |-> IF m = n THEN e ELSE errors[m]]
ErrDel(errors, n) == [m \in DOMAIN errors \ {n} |-> errors[m]]

\* variant: the asset is marked clean after every visit
recordVisitClean(v, A) ==
  IF v.c.g.threw THEN v.c
  ELSE [v.c EXCEPT !.g.nodes[A].usedSymbolsUpDirty = FALSE,
                   !.errors = IF Len(v.errors) > 0 THEN ErrSet(@, A, v.errors)
                              ELSE ErrDel(@, A),
                   !.upVisited = @ \cup {A},
                   !.diagnostics = ErrSet(@, A, v.errors)]

\* `if (e.length > 0) {...} else {...}` after `let e = visit(...)`: v = [c, errors]
recordVisit(v, A) ==
  IF v.c.g.threw THEN v.c
  ELSE [v.c EXCEPT !.g.nodes[A].usedSymbolsUpDirty = Len(v.errors) > 0,
                   !.errors = IF Len(v.errors) > 0 THEN ErrSet(@, A, v.errors)
                              ELSE ErrDel(@, A),
                   !.upVisited = @ \cup {A},
                   !.diagnostics = ErrSet(@, A, v.errors)]

\* variant: the asset is visited whether it is dirty or not
visitAlways(c, A, incoming, outgoing) == recordVisit(upVisit(c, A, incoming, outgoing), A)

\* `if (node.usedSymbolsUpDirty) { let e = visit(...); ... }`
visitIfDirty(c, A, incoming, outgoing) ==
  IF ~c.g.nodes[A].usedSymbolsUpDirty THEN c
  ELSE recordVisit(upVisit(c, A, incoming, outgoing), A)

AllDependencies(g, ids) == \A k \in 1..Len(ids) : g.nodes[ids[k]].type = "dependency"

\* walk, after `walk(childId)`: an asset takes over the child's usedSymbolsUpDirtyUp
walkedChild(w, nodeId, childId) ==
  IF w.c.g.threw \/ w.c.g.nodes[nodeId].type # "asset" THEN w
  ELSE IF w.c.g.nodes[childId].type # "dependency" THEN [w EXCEPT !.c.g.threw = TRUE]
  ELSE IF w.c.g.nodes[childId].usedSymbolsUpDirtyUp
    THEN [w EXCEPT !.c.g.nodes[nodeId].usedSymbolsUpDirty = TRUE,
                   !.c.g.nodes[childId].usedSymbolsUpDirtyUp = FALSE]
  ELSE w

\* walk, after the loop over the children
walkNode(w, nodeId, outgoing) ==
  IF w.c.g.threw THEN w
  ELSE IF w.c.g.nodes[nodeId].type = "asset"
    THEN LET incoming == getIncomingDependencies(w.c.g, nodeId)
             c1 == clearUpDirtyDown(w.c, nodeId, incoming, 1)
         IN IF c1.g.nodes[nodeId].usedSymbolsUpDirty /\ ~AllDependencies(c1.g, outgoing)
              THEN [w EXCEPT !.c = [c1 EXCEPT !.g.threw = TRUE]]
              ELSE [w EXCEPT !.c = visitIfDirty(c1, nodeId, incoming, outgoing)]
  ELSE IF w.c.g.nodes[nodeId].type = "dependency"
    THEN [w EXCEPT !.dirtyDeps = IF w.c.g.nodes[nodeId].usedSymbolsUpDirtyUp
                                   THEN SeqAdd(@, nodeId) ELSE SeqDel(@, nodeId)]
  ELSE w

RECURSIVE walk(_, _), walkChildren(_, _, _, _)
\* full pass: w = [c, visited, dirtyDeps]
walkChildren(w, nodeId, outgoing, i) ==
  IF i > Len(outgoing) \/ w.c.g.threw THEN w
  ELSE IF outgoing[i] \in w.visited THEN walkChildren(w, nodeId, outgoing, i + 1)
  ELSE walkChildren(
         walkedChild(walk([w EXCEPT !.visited = @ \cup {outgoing[i]}], outgoing[i]),
                     nodeId, outgoing[i]),
         nodeId, outgoing, i + 1)

walk(w, nodeId) ==
  LET outgoing == getNodeIdsConnectedFrom(w.c.g, nodeId)
  IN walkNode(walkChildren(w, nodeId, outgoing, 1), nodeId, outgoing)

RECURSIVE queueDirtyIncoming(_, _, _, _)
\* `for (let i of incoming) if (i.usedSymbolsUpDirtyUp) queue.add(...)`
queueDirtyIncoming(g, queue, incoming, i) ==
  IF i > Len(incoming) THEN queue
  ELSE queueDirtyIncoming(g,
         IF g.nodes[incoming[i]].usedSymbolsUpDirtyUp THEN SeqAdd(queue, incoming[i]) ELSE queue,
         incoming, i + 1)

\* queue loop, an asset was dequeued: the state up to its visit
upLoopVisit(c, queuedNodeId) ==
  LET incoming == getIncomingDependencies(c.g, queuedNodeId)
      outgoing == getNodeIdsConnectedFrom(c.g, queuedNodeId)
      c1 == clearUpDirtyDown(c, queuedNodeId, incoming, 1)
  IN IF ~AllDependencies(c.g, outgoing) THEN [c1 EXCEPT !.g.threw = TRUE]
     ELSE visitIfDirty(clearUpDirtyUp(c1, queuedNodeId, outgoing, 1),
                       queuedNodeId, incoming, outgoing)

RECURSIVE upLoop(_, _, _), upLoopRequeue(_, _, _, _)
\* queue loop, after the visit of an asset: its dirty incoming dependencies are queued
upLoopRequeue(c, queuedNodeId, rest, fuel) ==
  upLoop(c, queueDirtyIncoming(c.g, rest, getIncomingDependencies(c.g, queuedNodeId), 1),
         fuel - 1)

\* propagateSymbolsUp: `while (queue.size > 0)`
upLoop(c, queue, fuel) ==
  IF Len(queue) = 0 \/ c.g.threw THEN c
  ELSE IF fuel = 0 THEN [c EXCEPT !.diverged = TRUE]
  ELSE
    LET queuedNodeId == Head(queue)
        rest == Tail(queue)
        connectedNodes == getNodeIdsConnectedTo(c.g, queuedNodeId)
    IN IF ~hasNode(c.g, queuedNodeId) THEN [c EXCEPT !.g.threw = TRUE]
       ELSE IF c.g.nodes[queuedNodeId].type = "asset"
         THEN upLoopRequeue(upLoopVisit(c, queuedNodeId), queuedNodeId, rest, fuel)
       \* Set.prototype.add takes one argument: only the first of
       \* `queue.add(...connectedNodes)` is added
       ELSE upLoop(c, IF Len(connectedNodes) > 0 THEN SeqAdd(rest, connectedNodes[1]) ELSE rest,
                   fuel - 1)

\* variant: the entries of removed nodes are kept
keepErrors(g, previousErrors) == previousErrors

\* previousErrors restricted to the nodes still in the graph
pruneErrors(g, previousErrors) ==
  [n \in DOMAIN previousErrors \cap DOMAIN g.nodes |-> previousErrors[n]]

\* changedDepsUsedSymbolsUpDirtyDownAssets.size
dirtyAssetCount(c, changedAssets) ==
  Cardinality(Range(resolutionsReversed(c.g, c.changedDown, Len(c.changedDown)))
              \cup Range(changedAssets))

\* assetGraph.nodes.length * (1 / 6) * 0.5 < size; nodesLength is the total
\* node count of the asset graph
runFullPassFor(nodesLength, size) == nodesLength < 12 * size

\* `let queue = dirtyDeps` after walk(rootNodeId)
upLoopAfterWalk(w) == upLoop(w.c, w.dirtyDeps, MaxSteps)

\* propagateSymbolsUp
propagateSymbolsUp(c, changedAssets, previousErrors, nodesLength) ==
  LET c0 == [c EXCEPT !.errors = pruneErrors(c.g, previousErrors),
                      !.previousErrors = previousErrors,
                      !.runFullPass = runFullPassFor(nodesLength,
                                                     dirtyAssetCount(c, changedAssets))]
  IN IF c0.runFullPass
       THEN IF c0.g.rootNodeId = Null THEN [c0 EXCEPT !.g.threw = TRUE]
            ELSE upLoopAfterWalk(walk([c |-> c0, visited |-> {c0.g.rootNodeId},
                                       dirtyDeps |-> <<>>], c0.g.rootNodeId))
       ELSE upLoop(c0,
                   SeqAddAll(SeqAddAll(<<>>,
                       resolutionsReversed(c0.g, c0.changedDown, Len(c0.changedDown)), 1),
                     changedAssets, 1),
                   MaxSteps)

RECURSIVE SortByKey(_)
\* [...dep.usedSymbolsUp].sort(([a], [b]) => a - b)
SortByKey(m) ==
  IF Len(m) = 0 THEN <<>>
  ELSE LET i == CHOOSE k \in 1..Len(m) : \A j \in 1..Len(m) : m[k].key <= m[j].key
       IN <<m[i]>> \o SortByKey([j \in 1..(Len(m) - 1) |-> IF j < i THEN m[j] ELSE m[j + 1]])

\* variant: the node map is rebuilt from the changed dependencies alone
sortChangedDepsOnly(c) ==
  [c EXCEPT !.g.nodes = [n \in DOMAIN c.g.nodes \cap c.changedDeps |->
     [c.g.nodes[n] EXCEPT !.usedSymbolsUp = SortByKey(@)]]]

\* `for (let dep of changedDeps) dep.usedSymbolsUp = new Map(sorted)`
sortChangedDeps(c) ==
  [c EXCEPT !.g.nodes = [n \in DOMAIN c.g.nodes |->
     IF n \in c.changedDeps
       THEN [c.g.nodes[n] EXCEPT !.usedSymbolsUp = SortByKey(@)]
       ELSE c.g.nodes[n]]]

\* the local state of one propagateSymbols call
NewCall(g) ==
  [g |-> g, changedDown |-> <<>>, changedDeps |-> {}, errors |-> <<>>, log |-> {},
   diverged |-> FALSE, downVisited |-> {}, upVisited |-> {}, runFullPass |-> FALSE,
   \* what the last up visit of each visited asset returned, and the caller's
   \* previousErrors map
   diagnostics |-> <<>>, previousErrors |-> <<>>]

\* the call up to the end of the down pass
afterDown(g, changedAssets, assetGroupsWithRemovedParents) ==
  propagateSymbolsDown(NewCall(g), changedAssets, assetGroupsWithRemovedParents)

\* the end of the call: the final sort, which an exception skips; u = the
\* state left by propagateSymbolsUp
returned(u) == IF u.g.threw \/ u.diverged THEN u ELSE sortChangedDeps(u)

\* the rest of the call after the down pass
finishWith(c, changedAssets, previousErrors, nodesLength) ==
  IF c.g.threw \/ c.diverged THEN c
  ELSE returned(propagateSymbolsUp(c, changedAssets, previousErrors, nodesLength))

\* propagateSymbols
propagateSymbols(g, changedAssets, assetGroupsWithRemovedParents, previousErrors, nodesLength) ==
  finishWith(afterDown(g, changedAssets, assetGroupsWithRemovedParents),
             changedAssets, previousErrors, nodesLength)

\* ------------------------------------------------------ asset graph nodes
Sym(exported, local, weak) == [exported |-> exported, local |-> local, weak |-> weak]

BlankNode ==
  [type |-> "root", hasSymbols |-> FALSE, symbols |-> <<>>, sideEffects |-> TRUE,
   isolated |-> FALSE, sourceAssetId |-> Null,
   usedSymbols |-> {}, usedSymbolsDown |-> <<>>, usedSymbolsUp |-> <<>>,
   usedSymbolsDownDirty |-> FALSE, usedSymbolsUpDirty |-> FALSE,
   usedSymbolsUpDirtyDown |-> FALSE, usedSymbolsUpDirtyUp |-> FALSE, excluded |-> FALSE]

\* a freshly created asset node: both dirty flags set
AssetNode(table, sideEffects) ==
  [BlankNode EXCEPT !.type = "asset", !.hasSymbols = table.has, !.symbols = table.syms,
                    !.sideEffects = sideEffects,
                    !.usedSymbolsDownDirty = TRUE, !.usedSymbolsUpDirty = TRUE]

\* a freshly created dependency node: all three dirty flags set
DependencyNode(table, sourceAssetId, requested) ==
  [BlankNode EXCEPT !.type = "dependency", !.hasSymbols = table.has, !.symbols = table.syms,
                    !.sourceAssetId = sourceAssetId, !.usedSymbolsDown = requested,
                    !.usedSymbolsDownDirty = TRUE, !.usedSymbolsUpDirtyDown = TRUE,
                    !.usedSymbolsUpDirtyUp = TRUE]

AssetGroupNode(sideEffects) ==
  [BlankNode EXCEPT !.type = "asset_group", !.sideEffects = sideEffects]

Table(syms) == [has |-> TRUE, syms |-> syms]
NoTable == [has |-> FALSE, syms |-> <<>>]

\* node ids of the modelled asset graph
\*   root -> d1 -> g1 -> a -> d2 -> g2 -> b      a -> d3 -> (nothing | g2 | g3 -> x)
\*   or, as a dependency cycle,                  b -> d3 -> g1
\*   or, with an asset group of two assets,      g1 -> x -> d3 -> g2
Id == [root |-> 0, d1 |-> 1, g1 |-> 2, a |-> 3, d2 |-> 4, g2 |-> 5, b |-> 6, d3 |-> 7,
       g3 |-> 8, x |-> 9]

\* symbol tables an asset can declare
AssetTables ==
  { Table(<<Sym(SymA, Loc1, FALSE), Sym(SymB, Loc2, FALSE)>>),  \* export {a, b} from ...
    Table(<<Sym(SymA, SymA, FALSE)>>),                          \* export const a
    Table(<<Sym(SymB, SymB, FALSE)>>),                          \* export const b
    NoTable }

\* symbol tables a dependency of an asset can declare
DepTables ==
  { Table(<<Sym(SymA, Loc1, TRUE), Sym(SymB, Loc2, TRUE)>>),    \* weak re-exports
    Table(<<Sym(SymA, Loc1, FALSE)>>),                          \* import {a}
    Table(<<Sym(Star, Star, TRUE)>>) }                          \* export * from

\* what the entry dependency requests (usedSymbolsDown is set on creation)
EntryRequests ==
  { [table |-> Table(<<Sym(SymA, SymA, FALSE)>>), down |-> <<SymA>>],
    [table |-> Table(<<Sym(SymA, SymA, FALSE), Sym(SymB, SymB, FALSE)>>), down |-> <<SymA, SymB>>],
    [table |-> Table(<<Sym(Star, Star, TRUE)>>), down |-> <<Star>>] }

D3Modes == {"absent", "unresolved", "shared"}

\* the asset a second dependency of its own resolves to: export const a
XTable == Table(<<Sym(SymA, SymA, FALSE)>>)

\* the asset graph after the initial build
BuildGraph(entry, aTable, aSideEffects, d2Table, g2SideEffects, bTable, d3Mode, d3Table) ==
  LET ids == IF d3Mode = "absent" THEN 0..6 ELSE IF d3Mode = "own" THEN 0..9
             ELSE IF d3Mode = "group" THEN (0..7) \cup {Id.x} ELSE 0..7
      node(n) ==
        IF n = Id.root THEN BlankNode
        ELSE IF n = Id.d1 THEN DependencyNode(entry.table, Null, entry.down)
        ELSE IF n = Id.g1 THEN AssetGroupNode(TRUE)
        ELSE IF n = Id.a THEN AssetNode(aTable, aSideEffects)
        ELSE IF n = Id.d2 THEN DependencyNode(d2Table, Id.a, <<>>)
        ELSE IF n = Id.g2 THEN AssetGroupNode(g2SideEffects)
        ELSE IF n = Id.b THEN AssetNode(bTable, FALSE)
        ELSE IF n = Id.d3
          THEN DependencyNode(d3Table, IF d3Mode = "cycle" THEN Id.b
                                       ELSE IF d3Mode = "group" THEN Id.x ELSE Id.a, <<>>)
        ELSE IF n = Id.g3 THEN AssetGroupNode(TRUE)
        ELSE AssetNode(XTable, FALSE)
      chain == <<Edge(Id.root, Id.d1, 1), Edge(Id.d1, Id.g1, 1), Edge(Id.g1, Id.a, 1),
                 Edge(Id.a, Id.d2, 1), Edge(Id.d2, Id.g2, 1), Edge(Id.g2, Id.b, 1)>>
      extra == IF d3Mode = "absent" THEN <<>>
               ELSE IF d3Mode = "unresolved" THEN <<Edge(Id.a, Id.d3, 1)>>
               ELSE IF d3Mode = "shared" THEN <<Edge(Id.a, Id.d3, 1), Edge(Id.d3, Id.g2, 1)>>
               ELSE IF d3Mode = "cycle" THEN <<Edge(Id.b, Id.d3, 1), Edge(Id.d3, Id.g1, 1)>>
               ELSE IF d3Mode = "group"
                 THEN <<Edge(Id.g1, Id.x, 1), Edge(Id.x, Id.d3, 1), Edge(Id.d3, Id.g2, 1)>>
               ELSE <<Edge(Id.a, Id.d3, 1), Edge(Id.d3, Id.g3, 1), Edge(Id.g3, Id.x, 1)>>
  IN [nodes |-> [n \in ids |-> node(n)], edges |-> chain \o extra,
      rootNodeId |-> Id.root, threw |-> FALSE]

\* ------------------------------------------------------------------ state
VARIABLES
  graph,          \* Graph spec: the Graph object
  nodeCount,      \* Graph spec: AdjacencyList's node counter (next NodeId)
  lastOp,         \* Graph spec: the last Graph call and whether it threw
  ag,             \* the asset graph
  changedAssets,  \* changedAssetsPropagation collected since the last call
  removedParents, \* assetGroupsWithRemovedParents collected since the last call
  errors,         \* the error map returned by the last propagateSymbols call
  last,           \* the last step on the asset graph
  mutations       \* number of rebuild steps so far

gvars == <<graph, nodeCount, lastOp>>
pvars == <<ag, changedAssets, removedParents, errors, last, mutations>>
vars == <<graph, nodeCount, lastOp, ag, changedAssets, removedParents, errors, last, mutations>>

NoOp == [op |-> "none", from |-> Null, to |-> Null, type |-> 0,
         removeOrphans |-> FALSE, threw |-> FALSE]

EmptyGraph == [nodes |-> <<>>, edges |-> <<>>, rootNodeId |-> Null, threw |-> FALSE]

NoStep == [kind |-> "init", changedAssets |-> <<>>, removedParents |-> <<>>,
           pad |-> 0, runFullPass |-> FALSE, threw |-> FALSE, diverged |-> FALSE,
           log |-> {}, downVisited |-> {}, upVisited |-> {}, changedDeps |-> {},
           diagnostics |-> <<>>, previousErrors |-> <<>>,
           mutation |-> "none",   \* what a rebuild step changed
           \* a single visit: the asset, the order of its outgoing dependencies,
           \* whether the visitor ran
           asset |-> Null, outgoing |-> <<>>, visited |-> FALSE,
           changedDown |-> {}]    \* changedDepsUsedSymbolsUpDirtyDown after a down visit

\* the part of the state a specification does not use
IdleGraph == graph = EmptyGraph /\ nodeCount = 0 /\ lastOp = NoOp
IdleAssetGraph ==
  /\ ag = EmptyGraph /\ changedAssets = <<>> /\ removedParents = <<>>
  /\ errors = <<>> /\ last = NoStep /\ mutations = 0

\* a call ends; an exception is observed by the caller and the object is kept
Settle(g) == [g EXCEPT !.threw = FALSE]

\* ------------------------------------------------------------ Graph spec
InitGraph ==
  /\ graph = EmptyGraph
  /\ nodeCount = 0
  /\ lastOp = NoOp
  /\ IdleAssetGraph

\* Graph.addNode
AddNode ==
  /\ nodeCount < MaxNodes
  /\ graph' = [graph EXCEPT !.nodes =
                 [m \in DOMAIN graph.nodes \cup {nodeCount} |->
                    IF m = nodeCount THEN "node" ELSE graph.nodes[m]]]
  /\ nodeCount' = nodeCount + 1
  /\ lastOp' = [NoOp EXCEPT !.op = "addNode", !.to = nodeCount]
  /\ UNCHANGED pvars

\* Graph.setRootNodeId
SetRootNodeId ==
  \E id \in DOMAIN graph.nodes \cup {Null} :
    /\ id # graph.rootNodeId
    /\ graph' = [graph EXCEPT !.rootNodeId = id]
    /\ lastOp' = [NoOp EXCEPT !.op = "setRootNodeId", !.to = id]
    /\ UNCHANGED <<nodeCount, pvars>>

AddEdge ==
  \E from \in DOMAIN graph.nodes, to \in DOMAIN graph.nodes, type \in EdgeTypes :
    /\ Len(graph.edges) < MaxEdges
    /\ LET g == addEdge(graph, from, to, type)
       IN /\ graph' = Settle(g)
          /\ lastOp' = [op |-> "addEdge", from |-> from, to |-> to, type |-> type,
                        removeOrphans |-> FALSE, threw |-> g.threw,
                        result |-> ~g.threw /\ addEdgeReturns(graph, from, to, type)]
    /\ UNCHANGED <<nodeCount, pvars>>

RemoveEdge ==
  \E from \in DOMAIN graph.nodes, to \in DOMAIN graph.nodes, type \in EdgeTypes,
     removeOrphans \in BOOLEAN :
    /\ hasEdge(graph, from, to, type)
    /\ LET g == removeEdge(graph, from, to, type, removeOrphans)
       IN /\ graph' = Settle(g)
          /\ lastOp' = [op |-> "removeEdge", from |-> from, to |-> to, type |-> type,
                        removeOrphans |-> removeOrphans, threw |-> g.threw]
    /\ UNCHANGED <<nodeCount, pvars>>

RemoveNode ==
  \E n \in DOMAIN graph.nodes :
    /\ LET g == removeNode(graph, n)
       IN /\ graph' = Settle(g)
          /\ lastOp' = [NoOp EXCEPT !.op = "removeNode", !.to = n, !.threw = g.threw]
    /\ UNCHANGED <<nodeCount, pvars>>

\* Graph.nextNodeId: set in the constructor only, no mutator assigns it
nextNodeId(g) == 0

\* AdjacencyList.serialize: the packed edge array (from, to, type per edge, in
\* insertion order) with the node and edge counts
RECURSIVE packEdges(_)
packEdges(es) ==
  IF es = <<>> THEN <<>>
  ELSE <<Head(es).from, Head(es).to, Head(es).type>> \o packEdges(Tail(es))

adjSerialize(g, count) ==
  [nodeCount |-> count, edgeCount |-> Len(g.edges), packedEdges |-> packEdges(g.edges)]

\* AdjacencyList.deserialize: the edges are read back from the packed array
adjDeserialize(opts) ==
  [nodeCount |-> opts.nodeCount,
   edges |-> [i \in 1..opts.edgeCount |->
                Edge(opts.packedEdges[3 * i - 2], opts.packedEdges[3 * i - 1],
                     opts.packedEdges[3 * i])]]

\* Graph.serialize
serialize(g, count) ==
  [nodes |-> g.nodes, adjacencyList |-> adjSerialize(g, count),
   rootNodeId |-> g.rootNodeId, nextNodeId |-> nextNodeId(g)]

\* variant: the constructor does not take the root over
deserializeRootless(opts) ==
  [graph |-> [nodes |-> opts.nodes, edges |-> adjDeserialize(opts.adjacencyList).edges,
              rootNodeId |-> Null, threw |-> FALSE],
   nodeCount |-> adjDeserialize(opts.adjacencyList).nodeCount,
   nextNodeId |-> opts.nextNodeId]

\* Graph.deserialize with the constructor it calls
deserialize(opts) ==
  [graph |-> [nodes |-> opts.nodes, edges |-> adjDeserialize(opts.adjacencyList).edges,
              rootNodeId |-> opts.rootNodeId, threw |-> FALSE],
   nodeCount |-> adjDeserialize(opts.adjacencyList).nodeCount,
   nextNodeId |-> opts.nextNodeId]

\* the graph is serialized and the program goes on with the deserialized copy
Deserialize ==
  /\ lastOp.op # "deserialize"
  /\ \E r \in {deserialize(serialize(graph, nodeCount))} :
       /\ graph' = r.graph
       /\ nodeCount' = r.nodeCount
       /\ lastOp' = [op |-> "deserialize", from |-> Null, to |-> Null, type |-> 0,
                     removeOrphans |-> FALSE, threw |-> FALSE,
                     nextNodeId |-> r.nextNodeId]
  /\ UNCHANGED pvars


\* -------------------------------------------------------- Graph traversal
\* bfs, `while (queue.length > 0)`: stops is the set of nodes for which the
\* visitor returns true, calls the arguments visit was called with so far
RECURSIVE bfsLoop(_, _, _, _, _)
bfsLoop(g, stops, queue, visited, calls) ==
  IF Len(queue) = 0 THEN [calls |-> calls, result |-> Null]
  ELSE LET node == Head(queue)
           fresh == SeqSelect(SeqAddAll(<<>>, getNodeIdsConnectedFrom(g, node), 1), 1,
                              DOMAIN g.nodes \ visited)
       IN IF g.rootNodeId \in stops   \* let stop = visit(rootNodeId)
            THEN [calls |-> Append(calls, g.rootNodeId), result |-> node]
            ELSE bfsLoop(g, stops, Tail(queue) \o fresh, visited \cup Range(fresh),
                         Append(calls, g.rootNodeId))

\* Graph.bfs
bfs(g, stops) == bfsLoop(g, stops, <<g.rootNodeId>>, {g.rootNodeId}, <<>>)

\* dfs. A visitor v = [exit, enterStop, enterSkip, exitStop, exitSkip]: enter
\* returns its node as the new context, exit (if the visitor has one) returns
\* nothing; the sets list the nodes at which the callback calls actions.stop()
\* and actions.skipChildren(). The traversal state t = [visited, stopped,
\* skipped, events, result, returned]; result Null is `undefined`.
Event(cb, nodeId, context, v) ==
  [cb |-> cb, node |-> nodeId, context |-> context,
   stop |-> nodeId \in (IF cb = "enter" THEN v.enterStop ELSE v.exitStop),
   skip |-> nodeId \in (IF cb = "enter" THEN v.enterSkip ELSE v.exitSkip)]

\* variant: the node is not marked visited when it is entered
dfsEnterUnmarked(t, v, nodeId, context) ==
  [t EXCEPT !.skipped = nodeId \in v.enterSkip,
            !.stopped = @ \/ nodeId \in v.enterStop,
            !.events = Append(@, Event("enter", nodeId, context, v))]

\* walk: `visited.add(nodeId); skipped = false; if (enter) {...}`
dfsEnter(t, v, nodeId, context) ==
  [t EXCEPT !.visited = @ \cup {nodeId},
            !.skipped = nodeId \in v.enterSkip,
            !.stopped = @ \/ nodeId \in v.enterStop,
            !.events = Append(@, Event("enter", nodeId, context, v))]

\* walk: the exit callback and the two returns after it
dfsExit(t, v, nodeId, context) ==
  IF ~v.exit THEN [t EXCEPT !.result = IF t.skipped THEN Null
                                         ELSE IF t.stopped THEN context ELSE Null]
  ELSE [t EXCEPT !.skipped = @ \/ nodeId \in v.exitSkip,
                 !.stopped = @ \/ nodeId \in v.exitStop,
                 !.events = Append(@, Event("exit", nodeId, context, v)),
                 !.result = IF t.skipped \/ nodeId \in v.exitSkip THEN Null
                            ELSE IF t.stopped \/ nodeId \in v.exitStop THEN context
                            ELSE Null]

\* variant: `if (skipped) return;` precedes the exit callback
dfsAfterChildrenUnlessSkipped(t, v, nodeId, context) ==
  IF t.returned THEN t
  ELSE IF t.skipped THEN [t EXCEPT !.result = Null]
  ELSE dfsExit(t, v, nodeId, context)

\* walk: after the loop over the children, unless a child stopped the traversal
dfsAfterChildren(t, v, nodeId, context) ==
  IF t.returned THEN t ELSE dfsExit(t, v, nodeId, context)

\* getChildren of dfs: getNodeIdsConnectedFrom (traverse), getNodeIdsConnectedTo
\* (traverseAncestors), both of type 1, and getNodeIdsConnectedTo over
\* ALL_EDGE_TYPES ("toAll"), a de-duplicated list
getChildren(g, side, nodeId) ==
  IF side = "toAll"
    THEN SeqAddAll(<<>>, [i \in 1..Len(getInboundEdgesByType(g, nodeId)) |->
                           getInboundEdgesByType(g, nodeId)[i].from], 1)
    ELSE ConnectedSeq(g.edges, 1, side, nodeId)

RECURSIVE dfsWalk(_, _, _, _, _, _), dfsEntered(_, _, _, _, _),
          dfsChildren(_, _, _, _, _, _, _), dfsChild(_, _, _, _, _, _, _)
\* walk(nodeId, context); side selects getChildren
dfsWalk(g, v, side, t, nodeId, context) ==
  IF ~hasNode(g, nodeId) THEN [t EXCEPT !.result = Null]
  ELSE dfsEntered(g, v, side, dfsEnter(t, v, nodeId, context), nodeId)

\* walk: `if (skipped) return; if (stopped) return context;` and the rest
dfsEntered(g, v, side, t, nodeId) ==
  IF t.skipped THEN [t EXCEPT !.result = Null]
  ELSE IF t.stopped THEN [t EXCEPT !.result = nodeId]
  ELSE dfsAfterChildren(
         dfsChildren(g, v, side, t, getChildren(g, side, nodeId), 1, nodeId),
         v, nodeId, nodeId)

\* walk: `for (let child of getChildren(nodeId))`
dfsChildren(g, v, side, t, children, i, context) ==
  IF i > Len(children) THEN [t EXCEPT !.returned = FALSE]
  ELSE IF children[i] \in t.visited
    THEN dfsChildren(g, v, side, t, children, i + 1, context)
  ELSE dfsChild(g, v, side,
                dfsWalk(g, v, side, [t EXCEPT !.visited = @ \cup {children[i]}],
                        children[i], context),
                children, i, context)

\* variant: a child that skipped its children also ends the loop of its parent
dfsChildSkipEnds(g, v, side, r, children, i, context) ==
  IF r.stopped \/ r.skipped THEN [r EXCEPT !.returned = TRUE]
  ELSE dfsChildren(g, v, side, r, children, i + 1, context)

\* walk: `let result = walk(child, context); if (stopped) return result;`
dfsChild(g, v, side, r, children, i, context) ==
  IF r.stopped THEN [r EXCEPT !.returned = TRUE]
  ELSE dfsChildren(g, v, side, r, children, i + 1, context)

NewTraversal ==
  [visited |-> {}, stopped |-> FALSE, skipped |-> FALSE, events |-> <<>>,
   result |-> Null, returned |-> FALSE, threw |-> FALSE]

\* Graph.dfs
dfs(g, v, side, startNodeId) ==
  LET traversalStartNode == IF startNodeId # Null THEN startNodeId ELSE g.rootNodeId
  IN IF traversalStartNode = Null \/ ~hasNode(g, traversalStartNode)
       THEN [NewTraversal EXCEPT !.threw = TRUE]
       ELSE dfsWalk(g, v, side, NewTraversal, traversalStartNode, Null)

\* variant: the node is orphaned unless it has an inbound edge, root or not
isOrphanedNodeInboundOnly(g, nodeId) == Len(getInboundEdgesByType(g, nodeId)) = 0

\* Graph.isOrphanedNode on a node of the graph: without a root the inbound
\* edges decide; with a root traverseAncestors over ALL_EDGE_TYPES with a
\* visitor that stops at the root
isOrphanedNodeTraversed(g, nodeId) ==
  IF g.rootNodeId = Null THEN Len(getInboundEdgesByType(g, nodeId)) = 0
  ELSE ~dfs(g, [exit |-> FALSE, enterStop |-> {g.rootNodeId}, enterSkip |-> {},
                exitStop |-> {}, exitSkip |-> {}], "toAll", nodeId).stopped

\* Graph.isOrphanedNode
IsOrphanedNode ==
  /\ lastOp.op # "isOrphanedNode"
  /\ \E nodeId \in 0..(MaxNodes - 1) :
       lastOp' = [op |-> "isOrphanedNode", from |-> Null, to |-> nodeId, type |-> 0,
                  removeOrphans |-> FALSE, threw |-> ~hasNode(graph, nodeId),
                  result |-> hasNode(graph, nodeId)
                             /\ isOrphanedNodeTraversed(graph, nodeId)]
  /\ UNCHANGED <<graph, nodeCount, pvars>>

NextGraph ==
  \/ AddNode \/ SetRootNodeId \/ AddEdge \/ RemoveEdge \/ RemoveNode \/ Deserialize
  \/ IsOrphanedNode

SpecGraph == InitGraph /\ [][NextGraph]_vars

\* the visitors: stop and skipChildren are each called at one node at most
Visitors(nodes) ==
  {v \in [exit : BOOLEAN, enterStop : SUBSET nodes, enterSkip : SUBSET nodes,
          exitStop : SUBSET nodes, exitSkip : SUBSET nodes] :
     /\ Cardinality(v.enterStop \cup v.exitStop) <= 1
     /\ Cardinality(v.enterSkip \cup v.exitSkip) <= 1
     /\ ~v.exit => v.exitStop = {} /\ v.exitSkip = {}}

\* a dfs call ends: what the client saw
Traversed(op, startNodeId, v, t) ==
  [op |-> op, start |-> startNodeId, threw |-> t.threw,
   exit |-> v.exit,     \* whether the visitor has an exit callback
   events |-> t.events, result |-> t.result]

\* Graph.traverse called on the graph as built
Traverse ==
  /\ lastOp.op = "none"
  /\ \E v \in Visitors(DOMAIN graph.nodes), startNodeId \in DOMAIN graph.nodes \cup {Null} :
       lastOp' = Traversed("traverse", startNodeId, v, dfs(graph, v, "from", startNodeId))
  /\ UNCHANGED <<graph, nodeCount, pvars>>

\* Graph.traverseAncestors called on the graph as built
TraverseAncestors ==
  /\ lastOp.op = "none"
  /\ \E v \in Visitors(DOMAIN graph.nodes), startNodeId \in DOMAIN graph.nodes \cup {Null} :
       lastOp' = Traversed("traverseAncestors", startNodeId, v,
                          dfs(graph, v, "to", startNodeId))
  /\ UNCHANGED <<graph, nodeCount, pvars>>

\* Graph.bfs called on the graph as built
Bfs ==
  /\ lastOp.op = "none"
  /\ \E stops \in SUBSET DOMAIN graph.nodes :
       lastOp' = IF graph.rootNodeId = Null   \* nullthrows(this.rootNodeId)
                  THEN [op |-> "bfs", stops |-> stops, threw |-> TRUE]
                  ELSE [op |-> "bfs", stops |-> stops, threw |-> FALSE,
                        calls |-> bfs(graph, stops).calls,
                        result |-> bfs(graph, stops).result]
  /\ UNCHANGED <<graph, nodeCount, pvars>>

\* the graphs built from MaxNodes nodes by setRootNodeId and up to MaxEdges
\* addEdge calls of the given types, in every order
BuiltGraphsOf(types, roots) ==
  LET ids == 0..(MaxNodes - 1)
      all == {Edge(p[1], p[2], p[3]) : p \in ids \X ids \X types}
      lists == UNION {[1..k -> all] : k \in 0..MaxEdges}
  IN {[nodes |-> [n \in ids |-> "node"], edges |-> p[1], rootNodeId |-> p[2],
       threw |-> FALSE] :
        p \in {l \in lists : \A i, j \in DOMAIN l : i # j => l[i] # l[j]} \X roots}

\* edges of the default type, any root or none
BuiltGraphs == BuiltGraphsOf({1}, 0..(MaxNodes - 1) \cup {Null})

InitTraverse ==
  /\ graph \in BuiltGraphs
  /\ nodeCount = MaxNodes
  /\ lastOp = NoOp
  /\ IdleAssetGraph

\* Graph.addEdge called on the graph as built, with any ids and any type
AddEdgeAny ==
  /\ lastOp.op = "none"
  /\ \E from \in 0..MaxNodes, to \in 0..MaxNodes, type \in {0} \cup EdgeTypes :
       \E g \in {addEdge(graph, from, to, type)} :
         /\ graph' = Settle(g)
         /\ lastOp' = [op |-> "addEdge", from |-> from, to |-> to, type |-> type,
                       removeOrphans |-> FALSE, threw |-> g.threw]
  /\ UNCHANGED <<nodeCount, pvars>>

\* Graph.removeEdge called on the graph as built, with any ids and any type
RemoveEdgeAny ==
  /\ lastOp.op = "none"
  /\ \E from \in 0..MaxNodes, to \in 0..MaxNodes, type \in {0} \cup EdgeTypes,
        removeOrphans \in BOOLEAN :
       \E g \in {removeEdge(graph, from, to, type, removeOrphans)} :
         /\ graph' = Settle(g)
         /\ lastOp' = [op |-> "removeEdge", from |-> from, to |-> to, type |-> type,
                       removeOrphans |-> removeOrphans, threw |-> g.threw]
  /\ UNCHANGED <<nodeCount, pvars>>

\* Graph.updateNode called on the graph as built, with any id
UpdateNode ==
  /\ lastOp.op = "none"
  /\ \E nodeId \in 0..MaxNodes :
       \E g \in {updateNode(graph, nodeId, "updated")} :
         /\ graph' = Settle(g)
         /\ lastOp' = [NoOp EXCEPT !.op = "updateNode", !.to = nodeId, !.threw = g.threw]
  /\ UNCHANGED <<nodeCount, pvars>>

NextTraverse ==
  Bfs \/ Traverse \/ TraverseAncestors \/ AddEdgeAny \/ RemoveEdgeAny \/ UpdateNode

\* a graph is built, then one call is made on it
SpecTraverse == InitTraverse /\ [][NextTraverse]_vars

\* ---------------------------------------------- replaceNodeIdsConnectedTo
RECURSIVE replaceAdd(_, _, _, _, _)
\* `for (let toNodeId of toNodeIds) { ... addEdge ... }`
replaceAdd(g, fromNodeId, toNodeIds, type, i) ==
  IF i > Len(toNodeIds) \/ g.threw THEN g
  ELSE replaceAdd(IF hasEdge(g, fromNodeId, toNodeIds[i], type) THEN g
                  ELSE addEdge(g, fromNodeId, toNodeIds[i], type),
                  fromNodeId, toNodeIds, type, i + 1)

RECURSIVE replaceRemove(_, _, _, _, _)
\* `for (let child of childrenToRemove) this.removeEdge(fromNodeId, child, type)`
replaceRemove(g, fromNodeId, childrenToRemove, type, i) ==
  IF i > Len(childrenToRemove) \/ g.threw THEN g
  ELSE replaceRemove(removeEdge(g, fromNodeId, childrenToRemove[i], type, TRUE),
                     fromNodeId, childrenToRemove, type, i + 1)

\* getNodeIdsConnectedFrom(nodeId, type)
connectedFromByType(g, nodeId, type) ==
  LET out == getOutboundEdgesByType(g, nodeId)
  IN [i \in 1..Len(SelectSeq(out, LAMBDA e : e.type = type)) |->
        SelectSeq(out, LAMBDA e : e.type = type)[i].to]

\* replaceFilter: not given, or a predicate accepting the nodes of a set
NoFilter == [given |-> FALSE, accepts |-> {}]
Filter(S) == [given |-> TRUE, accepts |-> S]

\* Graph.replaceNodeIdsConnectedTo
replaceNodeIdsConnectedTo(g, fromNodeId, toNodeIds, replaceFilter, type) ==
  IF ~hasNode(g, fromNodeId) THEN Throw(g)
  ELSE LET outboundEdges == connectedFromByType(g, fromNodeId, type)
           filtered == IF replaceFilter.given
                         THEN SeqSelect(outboundEdges, 1, replaceFilter.accepts)
                         ELSE outboundEdges
           childrenToRemove == SeqSelect(filtered, 1, DOMAIN g.nodes \ Range(toNodeIds))
       IN replaceRemove(replaceAdd(g, fromNodeId, toNodeIds, type, 1),
                        fromNodeId, childrenToRemove, type, 1)

\* the first node added is the root; edges of both types
InitReplace ==
  /\ graph \in BuiltGraphsOf(EdgeTypes, {0})
  /\ nodeCount = MaxNodes
  /\ lastOp = NoOp
  /\ IdleAssetGraph

\* Graph.replaceNodeIdsConnectedTo called on the graph as built
ReplaceNodeIdsConnectedTo ==
  /\ lastOp.op = "none"
  /\ \E fromNodeId \in DOMAIN graph.nodes, tos \in SUBSET DOMAIN graph.nodes,
        replaceFilter \in {NoFilter, Filter({})} \cup {Filter({n}) : n \in DOMAIN graph.nodes},
        type \in EdgeTypes :
       \E g \in {replaceNodeIdsConnectedTo(graph, fromNodeId, SetToSeq(tos),
                                           replaceFilter, type)} :
         /\ graph' = Settle(g)
         /\ lastOp' = [op |-> "replaceNodeIdsConnectedTo", from |-> fromNodeId,
                       toNodeIds |-> tos, replaceFilter |-> replaceFilter,
                       type |-> type, threw |-> g.threw]
  /\ UNCHANGED <<nodeCount, pvars>>

\* a graph is built, then one node's outbound neighbours are replaced
SpecReplace == InitReplace /\ [][ReplaceNodeIdsConnectedTo]_vars

\* ------------------------------------------------------ propagation spec
\* bound on the number of rebuild steps between propagations
MaxMutations == 1
\* other nodes of the asset graph (clean, outside the modelled part) that only
\* count in assetGraph.nodes.length
PadNodes == 100

\* the initial builds
InitEntries == EntryRequests
InitAssetTables == {Table(<<Sym(SymA, Loc1, FALSE)>>),
                    Table(<<Sym(SymA, SymA, FALSE)>>)}
InitDepTables == {Table(<<Sym(SymA, Loc1, TRUE)>>),
                  Table(<<Sym(Star, Star, TRUE)>>)}
D3Table == Table(<<Sym(SymA, Loc1, FALSE), Sym(SymB, Loc2, FALSE)>>)

Init ==
  /\ IdleGraph
  /\ \E entry \in InitEntries, aTable \in InitAssetTables, d2Table \in InitDepTables,
        g2SideEffects \in BOOLEAN, d3Mode \in D3Modes :
       ag = BuildGraph(entry, aTable, FALSE, d2Table, g2SideEffects,
                       Table(<<Sym(SymA, SymA, FALSE)>>), d3Mode, D3Table)
  \* every asset of the initial build is a changed asset
  /\ changedAssets = <<Id.a, Id.b>>
  /\ removedParents = <<>>
  /\ errors = <<>>
  /\ last = NoStep
  /\ mutations = 0

StepOf(kind, c, ca, rp, pad) ==
  [kind |-> kind, changedAssets |-> ca, removedParents |-> rp,
   pad |-> pad, runFullPass |-> c.runFullPass, threw |-> c.g.threw, diverged |-> c.diverged,
   log |-> c.log, downVisited |-> c.downVisited, upVisited |-> c.upVisited,
   changedDeps |-> c.changedDeps,
   diagnostics |-> c.diagnostics, previousErrors |-> c.previousErrors,
   mutation |-> "none", asset |-> Null, outgoing |-> <<>>, visited |-> FALSE]

\* one call of propagateSymbols as made by the caller
Call(kind, ca, rp, pad) ==
  \E c \in {propagateSymbols(ag, ca, rp, errors, Cardinality(DOMAIN ag.nodes) + pad)} :
    /\ ag' = Settle(c.g)
    /\ errors' = IF c.g.threw \/ c.diverged THEN errors ELSE c.errors
    /\ last' = StepOf(kind, c, ca, rp, pad)

\* propagateSymbols after a build
Propagate ==
  /\ last.kind \in {"init", "mutate"}
  /\ \E pad \in {0, PadNodes} : Call("propagate", changedAssets, removedParents, pad)
  /\ changedAssets' = <<>>
  /\ removedParents' = <<>>
  /\ UNCHANGED <<mutations, gvars>>

\* propagateSymbols called again with the same arguments and the errors of
\* the previous call
Repropagate ==
  /\ last.kind = "propagate"
  /\ ~last.threw /\ ~last.diverged
  /\ Call("repropagate", last.changedAssets, last.removedParents, last.pad)
  /\ UNCHANGED <<changedAssets, removedParents, mutations, gvars>>

\* --- rebuild steps: what the asset graph builder does between two calls
NodesOfType(g, t) == {n \in DOMAIN g.nodes : g.nodes[n].type = t}

\* an asset that was (re)built: both dirty flags set, listed in changedAssets
markChanged(g, x) ==
  [g EXCEPT !.nodes[x].usedSymbolsDownDirty = TRUE, !.nodes[x].usedSymbolsUpDirty = TRUE]

\* the asset groups that lost at least one inbound dependency
lostParent(before, after) ==
  {n \in NodesOfType(after, "asset_group") :
     \E d \in NodesOfType(before, "dependency") :
        hasEdge(before, d, n, 1) /\ ~(hasNode(after, d) /\ hasEdge(after, d, n, 1))}

RECURSIVE markLostParents(_, _)
markLostParents(g, S) ==
  IF S = {} THEN g
  ELSE LET n == CHOOSE m \in S : \A k \in S : m <= k
       IN markLostParents([g EXCEPT !.nodes[n].usedSymbolsDownDirty = TRUE], S \ {n})

Rebuilt(g, x, before, mutation) ==
  /\ last.kind # "init"
  /\ ~last.threw /\ ~last.diverged
  /\ mutations < MaxMutations
  /\ ~g.threw
  /\ LET lost == lostParent(before, g)
     IN /\ ag' = markLostParents(markChanged(g, x), lost)
        /\ changedAssets' = SeqAdd(SeqSelect(changedAssets, 1, DOMAIN g.nodes), x)
        /\ removedParents' = SeqAddAll(SeqSelect(removedParents, 1, DOMAIN g.nodes),
                                       SetToSeq(lost), 1)
  /\ mutations' = mutations + 1
  /\ last' = [NoStep EXCEPT !.kind = "mutate", !.mutation = mutation]
  /\ UNCHANGED <<errors, gvars>>

\* an asset is transformed again and declares other symbols or side effects
ChangeAsset ==
  \E x \in NodesOfType(ag, "asset") :
    \/ \E table \in AssetTables :
         /\ <<table.has, table.syms>> # <<ag.nodes[x].hasSymbols, ag.nodes[x].symbols>>
         /\ Rebuilt([ag EXCEPT !.nodes[x].hasSymbols = table.has,
                               !.nodes[x].symbols = table.syms], x, ag, "symbols")
    \/ Rebuilt([ag EXCEPT !.nodes[x].sideEffects = ~@], x, ag, "sideEffects")

\* an asset is transformed again and one of its dependencies declares other symbols
ChangeDependency ==
  \E d \in NodesOfType(ag, "dependency"), table \in DepTables :
    /\ ag.nodes[d].sourceAssetId # Null
    /\ table.syms # ag.nodes[d].symbols
    /\ Rebuilt([ag EXCEPT !.nodes[d].hasSymbols = table.has,
                          !.nodes[d].symbols = table.syms],
               ag.nodes[d].sourceAssetId, ag, "dependency")

\* a dependency of a rebuilt asset no longer resolves to anything
Unresolve ==
  \E d \in NodesOfType(ag, "dependency") :
    /\ ag.nodes[d].sourceAssetId # Null
    /\ Len(getNodeIdsConnectedFrom(ag, d)) = 1
    /\ Rebuilt(removeEdge(ag, d, getNodeIdsConnectedFrom(ag, d)[1], 1, TRUE),
               ag.nodes[d].sourceAssetId, ag, "unresolve")

\* a rebuilt asset no longer has one of its dependencies
RemoveDependency ==
  \E d \in NodesOfType(ag, "dependency") :
    /\ ag.nodes[d].sourceAssetId # Null
    /\ Rebuilt(removeEdge(ag, ag.nodes[d].sourceAssetId, d, 1, TRUE),
               ag.nodes[d].sourceAssetId, ag, "remove")

Next == Propagate \/ Repropagate \/ ChangeAsset \/ ChangeDependency \/ Unresolve
          \/ RemoveDependency

Spec == Init /\ [][Next]_vars

\* ----------------------------------------------- builds of the examples
\* the initial builds of the specification's end-to-end scenarios: the entry
\* requests a, a and b, or the namespace; A re-exports a or nothing itself;
\* B exports a or only b; A may have a second dependency of its own, an
\* `export *` or an import of a and b
InitExampleAssetTables == {Table(<<Sym(SymA, Loc1, FALSE)>>), Table(<<>>)}
InitExampleBTables == {Table(<<Sym(SymA, SymA, FALSE)>>), Table(<<Sym(SymB, SymB, FALSE)>>)}
StarTable == Table(<<Sym(Star, Star, TRUE)>>)

InitExamples ==
  /\ IdleGraph
  /\ \E entry \in InitEntries, aTable \in InitExampleAssetTables, d2Table \in InitDepTables,
        bTable \in InitExampleBTables, d3Mode \in {"absent", "own"},
        d3Table \in {StarTable, D3Table} :
       /\ d3Mode = "absent" => d3Table = StarTable
       /\ ag = BuildGraph(entry, aTable, FALSE, d2Table, TRUE, bTable, d3Mode, d3Table)
  /\ changedAssets = IF Id.x \in DOMAIN ag.nodes THEN <<Id.a, Id.b, Id.x>> ELSE <<Id.a, Id.b>>
  /\ removedParents = <<>>
  /\ errors = <<>>
  /\ last = NoStep
  /\ mutations = 0

SpecExamples == InitExamples /\ [][Next]_vars

\* ------------------------------------------------- builds with a cycle
\* B imports from A again: `export * from './a'` or `export {b} from './a'`
InitCyclic ==
  /\ IdleGraph
  /\ \E entry \in InitEntries, aTable \in InitExampleAssetTables, d2Table \in InitDepTables,
        bTable \in {Table(<<Sym(SymA, SymA, FALSE)>>), Table(<<Sym(SymB, Loc2, FALSE)>>)},
        d3Table \in {StarTable, Table(<<Sym(SymB, Loc2, TRUE)>>)} :
       ag = BuildGraph(entry, aTable, FALSE, d2Table, TRUE, bTable, "cycle", d3Table)
  /\ changedAssets = <<Id.a, Id.b>>
  /\ removedParents = <<>>
  /\ errors = <<>>
  /\ last = NoStep
  /\ mutations = 0

SpecCyclic == InitCyclic /\ [][Next]_vars

\* ------------------------------------- builds with a two-asset group
\* D1 resolves through the asset group g1 to the assets A and X; each of them
\* declares a itself or re-exports it from B through its own dependency
GroupAssetTables == {Table(<<Sym(SymA, SymA, FALSE)>>), Table(<<Sym(SymA, Loc1, FALSE)>>)}

InitGroup ==
  /\ IdleGraph
  /\ \E entry \in InitEntries, aTable \in GroupAssetTables, xTable \in GroupAssetTables,
        bTable \in InitExampleBTables :
       ag = [BuildGraph(entry, aTable, FALSE, Table(<<Sym(SymA, Loc1, TRUE)>>), TRUE, bTable,
                        "group", Table(<<Sym(SymA, Loc1, TRUE)>>))
               EXCEPT !.nodes[Id.x].symbols = xTable.syms]
  /\ changedAssets = <<Id.a, Id.b, Id.x>>
  /\ removedParents = <<>>
  /\ errors = <<>>
  /\ last = NoStep
  /\ mutations = 0

SpecGroup == InitGroup /\ [][Next]_vars

\* ----------------------------------------------------- single visits
\* the two asset visitors applied one asset at a time, as the loops of
\* propagateSymbolsDown and propagateSymbolsUp apply them: first every asset
\* is dequeued by the down pass, then every asset by the up pass.  A has the
\* outgoing dependencies d2 (to B) and d3 (to X) in either insertion order.
VisitAssetTables ==
  { Table(<<Sym(SymA, Loc1, FALSE)>>),                           \* export {a} from
    Table(<<Sym(SymA, Loc1, FALSE), Sym(SymB, Loc2, FALSE)>>),   \* export {a, b} from
    NoTable }
VisitD2Tables ==
  { Table(<<Sym(SymA, Loc1, TRUE)>>), StarTable,
    Table(<<Sym(SymA, Loc1, TRUE), Sym(SymB, Loc2, TRUE)>>),
    Table(<<Sym(Star, Star, TRUE), Sym(SymA, Loc1, TRUE)>>),   \* export *, {a} from
    Table(<<Sym(Star, Star, TRUE), Sym(Default, Loc2, TRUE)>>),  \* export *; import d from
    NoTable }                                                   \* symbols cleared
VisitBTables == InitExampleBTables \cup {Table(<<Sym(Default, Default, FALSE)>>), NoTable}
VisitD3Tables == { Table(<<Sym(SymB, Loc2, FALSE)>>), StarTable }   \* import {b} / export *
AssetKinds == {"plain", "sideEffects", "isolated"}
\* what the entry dependency requests: also b alone, which A may not declare
VisitEntries ==
  InitEntries \cup {[table |-> Table(<<Sym(SymB, SymB, FALSE)>>), down |-> <<SymB>>],
                    [table |-> Table(<<Sym(Default, Default, FALSE)>>), down |-> <<Default>>]}

\* the graph of one build; A declares aTable
VisitBuild(entry, aTable, kind, d2Table, bTable, d3Table) ==
  [BuildGraph(entry, aTable, kind = "sideEffects", d2Table, TRUE, bTable, "own", d3Table)
     EXCEPT !.nodes[Id.a].isolated = (kind = "isolated")]

\* all permutations of a list
Orders(seq) ==
  {[i \in 1..Len(seq) |-> seq[p[i]]] :
     p \in {q \in [1..Len(seq) -> 1..Len(seq)] :
              \A i, j \in 1..Len(seq) : i # j => q[i] # q[j]}}

\* either the initial build, or a propagated build in which A declared
\* `export const a` followed by a rebuild of A that declares aTable
InitVisit ==
  /\ IdleGraph
  /\ \E entry \in VisitEntries, aTable \in VisitAssetTables, kind \in AssetKinds,
        d2Table \in VisitD2Tables, bTable \in VisitBTables, d3Table \in VisitD3Tables,
        rebuilt \in BOOLEAN :
       IF ~rebuilt
         THEN ag = VisitBuild(entry, aTable, kind, d2Table, bTable, d3Table)
         ELSE \E prevD2 \in {d2Table, Table(<<Sym(SymA, Loc1, TRUE)>>)} :
              \E c \in {propagateSymbols(
                           VisitBuild(entry, XTable, kind, prevD2, bTable, d3Table),
                           <<Id.a, Id.b, Id.x>>, <<>>, <<>>, Cardinality(0..9))} :
                /\ ~c.g.threw /\ ~c.diverged
                /\ ag = markChanged([c.g EXCEPT !.nodes[Id.a].hasSymbols = aTable.has,
                                                !.nodes[Id.a].symbols = aTable.syms,
                                                !.nodes[Id.d2].hasSymbols = d2Table.has,
                                                !.nodes[Id.d2].symbols = d2Table.syms], Id.a)
  /\ changedAssets = <<>>
  /\ removedParents = <<>>
  /\ errors = <<>>
  /\ last = NoStep
  /\ mutations = 0

\* the down pass dequeues asset x: the visitor runs if the asset is dirty
DownVisit ==
  /\ last.kind \in {"init", "downVisit"}
  /\ ~last.threw
  /\ \E x \in NodesOfType(ag, "asset") \ last.downVisited :
       \E outgoing \in Orders(getNodeIdsConnectedFrom(ag, x)) :
         \E c \in {IF ag.nodes[x].usedSymbolsDownDirty
                     THEN downVisit(NewCall(ag), x, getIncomingDependencies(ag, x), outgoing)
                     ELSE NewCall(ag)} :
           /\ ag' = IF c.g.threw THEN Settle(c.g)
                    ELSE [c.g EXCEPT !.nodes[x].usedSymbolsDownDirty = FALSE]
           /\ last' = [NoStep EXCEPT !.kind = "downVisit", !.asset = x,
                                     !.outgoing = outgoing,
                                     !.visited = ag.nodes[x].usedSymbolsDownDirty,
                                     !.threw = c.g.threw,
                                     !.changedDown = Range(c.changedDown),
                                     !.downVisited = last.downVisited \cup {x}]
  /\ UNCHANGED <<changedAssets, removedParents, errors, mutations, gvars>>

\* the up pass dequeues asset x
UpVisit ==
  /\ last.kind \in {"downVisit", "upVisit"}
  /\ ~last.threw
  /\ last.downVisited = NodesOfType(ag, "asset")
  /\ \E x \in NodesOfType(ag, "asset") \ last.upVisited :
       \E c \in {upLoopVisit([NewCall(ag) EXCEPT !.errors = errors], x)} :
         /\ ag' = Settle(c.g)
         /\ errors' = c.errors
         /\ last' = [NoStep EXCEPT !.kind = "upVisit", !.asset = x,
                                   !.outgoing = getNodeIdsConnectedFrom(ag, x),
                                   !.visited = x \in c.upVisited,
                                   !.threw = c.g.threw,
                                   !.diagnostics = c.diagnostics,
                                   !.changedDeps = c.changedDeps,
                                   !.log = c.log,
                                   !.downVisited = last.downVisited,
                                   !.upVisited = last.upVisited \cup {x}]
  /\ UNCHANGED <<changedAssets, removedParents, mutations, gvars>>

NextVisit == DownVisit \/ UpVisit

SpecVisit == InitVisit /\ [][NextVisit]_vars

\* ------------------------------------------------------------ Graph claims

\* C4: after removeNode(n) the call has completed (no exception), n is no
\* longer in the node map and no live edge of any type has n as an endpoint.
C4_RemoveNodeCascade ==
  lastOp.op = "removeNode" =>
    /\ ~lastOp.threw
    /\ ~hasNode(graph, lastOp.to)
    /\ \A e \in Range(graph.edges) : e.from # lastOp.to /\ e.to # lastOp.to

\* C5: in a graph whose nodes are all reachable from the root,
\* removeEdge(from, to, type) with removeOrphans = true completes, removes
\* `to` iff no path from the root to `to` remains, and leaves exactly the
\* nodes that are still reachable from the root.
AllReachable(g) ==
  /\ g.rootNodeId # Null
  /\ hasNode(g, g.rootNodeId)
  /\ DOMAIN g.nodes = ReachableFromRoot(g)

C5_OrphanPruning ==
  [][(lastOp'.op = "removeEdge" /\ lastOp'.removeOrphans /\ AllReachable(graph)) =>
       LET cut == adjRemoveEdge(graph, lastOp'.from, lastOp'.to, lastOp'.type)
       IN /\ ~lastOp'.threw
          /\ hasNode(graph', lastOp'.to) <=> lastOp'.to \in ReachableFromRoot(cut)
          /\ DOMAIN graph'.nodes = ReachableFromRoot(cut)]_gvars

\* ------------------------------------------------------ propagation claims
\* propagateSymbols has returned (it neither threw nor ran out of steps)
Returned == last.kind \in {"propagate", "repropagate"} /\ ~last.threw /\ ~last.diverged

Deps == NodesOfType(ag, "dependency")
Assets == NodesOfType(ag, "asset")

\* C1: after propagateSymbols returns, every key of usedSymbolsUp of every
\* dependency (resolved or not) is a member of its usedSymbolsDown.
C1_DownSupersetOfUp ==
  Returned => \A d \in Deps :
    MapKeys(ag.nodes[d].usedSymbolsUp) \subseteq Range(ag.nodes[d].usedSymbolsDown)

\* C2: after propagateSymbols returns no dependency, asset or asset group has
\* a dirty flag set, except the assets whose last up visit returned diagnostics.
C2_NoDirtyFlags ==
  Returned =>
    /\ \A d \in Deps :
         /\ ~ag.nodes[d].usedSymbolsDownDirty
         /\ ~ag.nodes[d].usedSymbolsUpDirtyDown
         /\ ~ag.nodes[d].usedSymbolsUpDirtyUp
    /\ \A n \in Assets \cup NodesOfType(ag, "asset_group") :
         n \notin DOMAIN errors =>
           ~ag.nodes[n].usedSymbolsDownDirty /\ ~ag.nodes[n].usedSymbolsUpDirty

\* C7: after propagateSymbols returns every excluded dependency has an empty
\* usedSymbolsUp and exactly one outgoing neighbour, an asset group whose
\* sideEffects is false.
C7_ExcludedDeps ==
  Returned => \A d \in Deps :
    ag.nodes[d].excluded =>
      /\ Len(ag.nodes[d].usedSymbolsUp) = 0
      /\ Len(getNodeIdsConnectedFrom(ag, d)) = 1
      /\ ag.nodes[getNodeIdsConnectedFrom(ag, d)[1]].type = "asset_group"
      /\ ag.nodes[getNodeIdsConnectedFrom(ag, d)[1]].sideEffects = FALSE

Ascending(m) == \A i \in 1..Len(m), j \in 1..Len(m) : i < j => m[i].key < m[j].key

\* C8: after propagateSymbols returns the keys of every usedSymbolsUp map are
\* in ascending SymbolId order.
C8_SortedUp ==
  Returned => \A d \in Deps : Ascending(ag.nodes[d].usedSymbolsUp)

\* what a caller reads from the graph after propagation: the contents of the
\* symbol sets and maps of every node
SymbolState(g) ==
  [n \in DOMAIN g.nodes |->
     [usedSymbols |-> g.nodes[n].usedSymbols,
      usedSymbolsDown |-> Range(g.nodes[n].usedSymbolsDown),
      usedSymbolsUp |-> Range(g.nodes[n].usedSymbolsUp),
      excluded |-> g.nodes[n].excluded]]

SameOutcome(full, queue) ==
  (~full.g.threw /\ ~full.diverged /\ ~queue.g.threw /\ ~queue.diverged) =>
    /\ SymbolState(full.g) = SymbolState(queue.g)
    /\ full.errors = queue.errors

\* the up pass as a full traversal (no other nodes: the heuristic holds with
\* any dirty asset) and as the work queue (PadNodes other nodes), from the
\* state d left by the down pass
UpPassModesAgree(d, ca, previousErrors) ==
  SameOutcome(finishWith(d, ca, previousErrors, 0),
              finishWith(d, ca, previousErrors, PadNodes))

\* C6: from the same graph and dirty state the up pass run as a full traversal
\* and the up pass run as the work queue end with the same usedSymbolsUp,
\* excluded, usedSymbols and error map.
C6_FullPassEqualsQueue ==
  [][last'.kind = "propagate" =>
       UpPassModesAgree(afterDown(ag, changedAssets, removedParents),
                        changedAssets, errors)]_pvars

\* the structure of the graph and the declared data of its nodes
Structure(g) ==
  [nodes |-> [n \in DOMAIN g.nodes |->
                [type |-> g.nodes[n].type, symbols |-> g.nodes[n].symbols,
                 hasSymbols |-> g.nodes[n].hasSymbols,
                 sideEffects |-> g.nodes[n].sideEffects]],
   edges |-> g.edges, rootNodeId |-> g.rootNodeId]

\* C9: propagateSymbols leaves the node set, the edge set and the root of the
\* graph unchanged, and changes nothing on the root node.
C9_Frame ==
  [][last'.kind \in {"propagate", "repropagate"} =>
       /\ Structure(ag') = Structure(ag)
       /\ ag'.nodes[ag.rootNodeId] = ag.nodes[ag.rootNodeId]]_pvars

\* the chain root -> D1 (requests s) -> A -> D2 (declares s as weak) -> B,
\* where A, free of side effects, declares s as a re-export of D2's local and
\* B declares s
WeakReexportChain ==
  /\ DOMAIN ag.nodes = {Id.root, Id.d1, Id.g1, Id.a, Id.d2, Id.g2, Id.b}
  /\ ag.nodes[Id.d1].usedSymbolsDown = <<SymA>>
  /\ ag.nodes[Id.a].symbols = <<Sym(SymA, Loc1, FALSE)>>
  /\ ag.nodes[Id.a].hasSymbols /\ ~ag.nodes[Id.a].sideEffects
  /\ ag.nodes[Id.d2].symbols = <<Sym(SymA, Loc1, TRUE)>>
  /\ ag.nodes[Id.b].symbols = <<Sym(SymA, SymA, FALSE)>>
  /\ hasEdge(ag, Id.d2, Id.g2, 1)

\* C10: for the weak re-export chain as built, after propagation
\* D2.usedSymbolsDown is {s}, A.usedSymbols is empty, D1.usedSymbolsUp is
\* {s -> (B, s)} and there are no errors.
C10_WeakReexport ==
  (Returned /\ mutations = 0 /\ WeakReexportChain) =>
    /\ ag.nodes[Id.d2].usedSymbolsDown = <<SymA>>
    /\ ag.nodes[Id.a].usedSymbols = {}
    /\ ag.nodes[Id.d1].usedSymbolsUp = <<Entry(SymA, Res(Id.b, SymA))>>
    /\ errors = <<>>

\* the chain was built and propagated, and D1 resolved s into B
C10_Witness ==
  /\ Returned /\ mutations = 0 /\ WeakReexportChain
  /\ last.upVisited = {Id.a, Id.b}
  /\ MapGet(ag.nodes[Id.d1].usedSymbolsUp, SymA) = Res(Id.b, SymA)

C9_Witness ==
  /\ last.kind = "propagate" /\ ~last.threw
  /\ last.downVisited # {} /\ last.upVisited # {}
  /\ last.changedDeps # {}

\* ----------------------------------------------------- claims, continued
\* the diagnostics of the error map, each with the asset it is filed under
Diagnostics ==
  UNION {{[node |-> n, dep |-> errors[n][k].dep, symbol |-> errors[n][k].symbol,
           resolution |-> errors[n][k].resolution] : k \in DOMAIN errors[n]} :
         n \in DOMAIN errors}

\* root -> D1 (requests a) -> A (export {a} from D2) -> D2 -> B, B exports only b
MissingExportChain ==
  /\ DOMAIN ag.nodes = 0..6
  /\ ag.nodes[Id.d1].symbols = <<Sym(SymA, SymA, FALSE)>>
  /\ ag.nodes[Id.a].hasSymbols /\ ag.nodes[Id.a].symbols = <<Sym(SymA, Loc1, FALSE)>>
  /\ ag.nodes[Id.d2].symbols = <<Sym(SymA, Loc1, TRUE)>>
  /\ ag.nodes[Id.b].hasSymbols /\ ag.nodes[Id.b].symbols = <<Sym(SymB, SymB, FALSE)>>

\* C11: on the missing-export chain the initial propagation is not aborted and
\* returns exactly one diagnostic, raised for D1, saying that B's file (the
\* resolution of D2) does not export a
C11_MissingExport ==
  (last.kind = "propagate" /\ mutations = 0 /\ MissingExportChain) =>
    /\ ~last.threw /\ ~last.diverged
    /\ \E n \in DOMAIN errors :
         Diagnostics = {[node |-> n, dep |-> Id.d1, symbol |-> SymA, resolution |-> Id.g2]}

\* root -> D1 (requests *) -> A (export * from x; export * from y) with the
\* dependencies D2 -> B and D3 -> X, both `*` -> `*`, B and X both exporting a
AmbiguousNamespaceChain ==
  /\ DOMAIN ag.nodes = 0..9
  /\ ag.nodes[Id.d1].symbols = <<Sym(Star, Star, TRUE)>>
  /\ ag.nodes[Id.a].hasSymbols /\ ag.nodes[Id.a].symbols = <<>>
  /\ ag.nodes[Id.d2].symbols = <<Sym(Star, Star, TRUE)>>
  /\ ag.nodes[Id.d3].symbols = <<Sym(Star, Star, TRUE)>>
  /\ ag.nodes[Id.b].symbols = <<Sym(SymA, SymA, FALSE)>>
  /\ ag.nodes[Id.x].symbols = <<Sym(SymA, SymA, FALSE)>>

\* C12: on the ambiguous namespace re-export chain the initial propagation
\* leaves `*` in A.usedSymbols and in the usedSymbolsDown of both namespace
\* dependencies, resolves a on D1 to A itself, logs the ambiguity of a and
\* files no diagnostic
C12_AmbiguousNamespace ==
  (last.kind = "propagate" /\ mutations = 0 /\ AmbiguousNamespaceChain) =>
    /\ ~last.threw /\ ~last.diverged
    /\ Star \in ag.nodes[Id.a].usedSymbols
    /\ Star \in Range(ag.nodes[Id.d2].usedSymbolsDown)
    /\ Star \in Range(ag.nodes[Id.d3].usedSymbolsDown)
    /\ MapHas(ag.nodes[Id.d1].usedSymbolsUp, SymA)
    /\ MapGet(ag.nodes[Id.d1].usedSymbolsUp, SymA) = Res(Id.a, SymA)
    /\ \E w \in last.log : w.asset = Id.a /\ w.symbol = SymA
    /\ errors = <<>>

\* the symbol sets and dirty flags of a node
NodeState(g, n) ==
  [usedSymbols |-> g.nodes[n].usedSymbols,
   usedSymbolsDown |-> Range(g.nodes[n].usedSymbolsDown),
   usedSymbolsUp |-> Range(g.nodes[n].usedSymbolsUp),
   dirty |-> <<g.nodes[n].usedSymbolsDownDirty, g.nodes[n].usedSymbolsUpDirty,
               g.nodes[n].usedSymbolsUpDirtyDown, g.nodes[n].usedSymbolsUpDirtyUp>>]

\* the dependencies whose usedSymbolsDown or usedSymbolsUp differ between g and h
ChangedDependencies(g, h) ==
  {d \in NodesOfType(h, "dependency") :
     \/ Range(g.nodes[d].usedSymbolsDown) # Range(h.nodes[d].usedSymbolsDown)
     \/ Range(g.nodes[d].usedSymbolsUp) # Range(h.nodes[d].usedSymbolsUp)}

\* the assets a dependency connects: its source asset and its resolutions
DepEnds(g, d) ==
  (Range(getNodeIdsConnectedTo(g, d)) \cap NodesOfType(g, "asset"))
    \cup Range(getDependencyResolution(g, d))

RECURSIVE ReachedThrough(_, _, _)
\* the assets reached from S through dependencies of deps, in either direction
ReachedThrough(g, deps, S) ==
  LET T == S \cup UNION {DepEnds(g, d) : d \in {e \in deps : DepEnds(g, e) \cap S # {}}}
  IN IF T = S THEN S ELSE ReachedThrough(g, deps, T)

\* the call from g to h with one changed asset x visited only assets of
\* `reached` and changed nothing on the other assets and on the dependencies
\* that connect none of them
LocalTo(g, h, x, visited, reached) ==
  /\ visited \subseteq reached
  /\ \A n \in NodesOfType(h, "asset") \ reached : NodeState(h, n) = NodeState(g, n)
  /\ \A d \in NodesOfType(h, "dependency") :
       DepEnds(h, d) \cap reached = {} => NodeState(h, d) = NodeState(g, d)

StillDirty(g) == {n \in NodesOfType(g, "asset") : g.nodes[n].usedSymbolsUpDirty}

C14_ErrorMap ==
  [][(last'.kind \in {"propagate", "repropagate"} /\ ~last'.threw /\ ~last'.diverged) =>
       /\ DOMAIN last'.diagnostics = last'.upVisited
       /\ DOMAIN errors' =
            {n \in last'.upVisited : Len(last'.diagnostics[n]) > 0}
              \cup ((DOMAIN errors \cap DOMAIN ag'.nodes) \ last'.upVisited)
       /\ \A n \in DOMAIN errors' :
            errors'[n] = IF n \in last'.upVisited THEN last'.diagnostics[n] ELSE errors[n]
       /\ last'.previousErrors = errors]_pvars

\* a call that kept the entry of an unvisited asset, dropped the entry of a
\* removed node and visited an asset
C14_Witness ==
  /\ last.kind = "propagate" /\ ~last.threw /\ ~last.diverged
  /\ last.upVisited # {}
  /\ \E n \in DOMAIN errors : n \notin last.upVisited
  /\ \E n \in DOMAIN last.previousErrors : n \notin DOMAIN ag.nodes

\* ------------------------------------------------------- traversal claims
RECURSIVE Within(_, _)
\* the nodes at most k edges (of type 1) away from the root
Within(g, k) ==
  IF k = 0 THEN {g.rootNodeId}
  ELSE Within(g, k - 1) \cup
       {e.to : e \in {f \in Range(g.edges) : f.type = 1 /\ f.from \in Within(g, k - 1)}}

\* the distance from the root of a node reachable from it
Depth(g, n) == CHOOSE k \in 0..Cardinality(DOMAIN g.nodes) :
                 n \in Within(g, k) /\ (k > 0 => n \notin Within(g, k - 1))

\* C15: bfs calls visit once with each node reachable from the root, in
\* breadth-first order starting with the root, up to and including the first
\* node for which visit returns true; it returns that node, or null when visit
\* returned true for no node
C15_Bfs ==
  (lastOp.op = "bfs" /\ ~lastOp.threw) =>
    LET calls == lastOp.calls
        reachable == Within(graph, Cardinality(DOMAIN graph.nodes))
    IN /\ Len(calls) > 0 /\ calls[1] = graph.rootNodeId
       /\ \A i, j \in 1..Len(calls) : i < j =>
            calls[i] # calls[j] /\ Depth(graph, calls[i]) <= Depth(graph, calls[j])
       /\ Range(calls) \subseteq reachable
       /\ \A i \in 1..(Len(calls) - 1) : calls[i] \notin lastOp.stops
       /\ IF calls[Len(calls)] \in lastOp.stops
            THEN lastOp.result = calls[Len(calls)]
            ELSE lastOp.result = Null /\ Range(calls) = reachable

\* the last call was a dfs that returned
Traversal == lastOp.op \in {"traverse", "traverseAncestors"} /\ ~lastOp.threw

\* C16: once a dfs visitor has called actions.stop(), in enter or in exit, no
\* further callback is invoked, and dfs returns the context in effect at that
\* node (here the node itself: enter returns its node as the context),
\* whatever else the callback did
C16_Stop ==
  Traversal =>
    \A i \in 1..Len(lastOp.events) :
      lastOp.events[i].stop =>
        /\ i = Len(lastOp.events)
        /\ lastOp.result = lastOp.events[i].node

RECURSIVE TraversalClosure(_, _, _)
\* the nodes reached from S through getChildren (edges of type 1, followed
\* forward for side "from" and backward for side "to")
TraversalClosure(g, side, S) ==
  LET T == S \cup {IF side = "from" THEN e.to ELSE e.from :
                     e \in {f \in Range(g.edges) :
                              f.type = 1 /\ (IF side = "from" THEN f.from ELSE f.to) \in S}}
  IN IF T = S THEN S ELSE TraversalClosure(g, side, T)

\* the nodes enter was called with, in order
Entered == SelectSeq(lastOp.events, LAMBDA e : e.cb = "enter")

\* C17: a dfs calls enter at most once per node, also on cyclic graphs; when
\* the visitor calls neither stop nor skipChildren, enter is called for
\* exactly the nodes reachable from the start node through getChildren
C17_EnterOnce ==
  Traversal =>
    /\ \A i, j \in 1..Len(Entered) : i # j => Entered[i].node # Entered[j].node
    /\ (\A i \in 1..Len(lastOp.events) : ~lastOp.events[i].stop /\ ~lastOp.events[i].skip) =>
         {Entered[i].node : i \in 1..Len(Entered)} =
           TraversalClosure(graph, IF lastOp.op = "traverse" THEN "from" ELSE "to",
                            {IF lastOp.start # Null THEN lastOp.start ELSE graph.rootNodeId})

\* a complete traversal of a cycle through all nodes
C17_Witness ==
  /\ Traversal /\ Len(Entered) = MaxNodes
  /\ \A i \in 1..Len(lastOp.events) : ~lastOp.events[i].stop /\ ~lastOp.events[i].skip
  /\ \E e \in Range(graph.edges) : e.to = Entered[1].node /\ e.from = Entered[Len(Entered)].node

\* ----------------------------------------- replaceNodeIdsConnectedTo claims
\* the outbound neighbours of n over edges of one type
Neighbours(g, n, type) == {e.to : e \in {f \in Range(g.edges) : f.from = n /\ f.type = type}}

\* the nodes a replaceFilter matches
Matching(replaceFilter, nodes) == IF replaceFilter.given THEN replaceFilter.accepts ELSE nodes

\* C18: replaceNodeIdsConnectedTo(from, newTos, filter, type) on a node
\* reachable from the root returns, and afterwards the outbound neighbours of `from` over `type` are
\* newTos and the previous neighbours the filter does not match; the edges of
\* other types leaving `from` are unchanged, and the previous edges to
\* members of newTos are still in place
C18_Replace ==
  [][(lastOp'.op = "replaceNodeIdsConnectedTo" /\ lastOp'.from \in ReachableFromRoot(graph)) =>
       LET from == lastOp'.from
           type == lastOp'.type
           kept == Neighbours(graph, from, type)
                     \ Matching(lastOp'.replaceFilter, DOMAIN graph.nodes)
       IN /\ ~lastOp'.threw
          /\ hasNode(graph', from)
          /\ Neighbours(graph', from, type) = lastOp'.toNodeIds \cup kept
          /\ \A other \in EdgeTypes \ {type} :
               Neighbours(graph', from, other) = Neighbours(graph, from, other)
          /\ SelectSeq(graph'.edges, LAMBDA e : e \in Range(graph.edges) /\ e.from = from)
               = SelectSeq(graph.edges,
                           LAMBDA e : /\ e.from = from
                                      /\ (e.type = type =>
                                            e.to \in lastOp'.toNodeIds \cup kept))]_gvars

Misuse(g, op) ==
  \/ /\ op.op = "addEdge"
     /\ op.type = 0 \/ ~hasNode(g, op.from) \/ ~hasNode(g, op.to)
  \/ op.op = "removeEdge" /\ ~hasEdge(g, op.from, op.to, op.type)
  \/ op.op = "updateNode" /\ ~hasNode(g, op.to)
  \/ /\ op.op \in {"traverse", "traverseAncestors"}
     /\ op.start = Null /\ g.rootNodeId = Null

\* C21: addEdge with type 0 or an absent from/to id, removeEdge of an edge that
\* does not exist, updateNode on an absent id and traverse/traverseAncestors
\* with neither a start node nor a root fail with an error and leave the
\* graph's nodes, edges and root unchanged
C21_Misuse ==
  [][Misuse(graph, lastOp') =>
       /\ lastOp'.threw
       /\ graph'.nodes = graph.nodes
       /\ graph'.edges = graph.edges
       /\ graph'.rootNodeId = graph.rootNodeId]_gvars

\* removeEdge was called for a triple without an edge between two nodes that
\* another edge connects
C21_Witness ==
  /\ lastOp.op = "removeEdge" /\ lastOp.threw
  /\ ~hasEdge(graph, lastOp.from, lastOp.to, lastOp.type)
  /\ hasNode(graph, lastOp.from) /\ hasNode(graph, lastOp.to)
  /\ \E type \in EdgeTypes : hasEdge(graph, lastOp.from, lastOp.to, type)

\* C22: isOrphanedNode(id) returns true iff the graph has no root and id has no
\* inbound edge of any type, or the graph has a root and no directed path over
\* edges of any type leads from the root to id; the root is never orphaned and
\* the call does not change the graph
C22_Orphaned ==
  [][(lastOp'.op = "isOrphanedNode" /\ ~lastOp'.threw) =>
       /\ lastOp'.result =
            IF graph.rootNodeId = Null
              THEN ~\E e \in Range(graph.edges) : e.to = lastOp'.to
              ELSE lastOp'.to \notin DescendantsClosure(graph, {graph.rootNodeId})
       /\ lastOp'.to = graph.rootNodeId => ~lastOp'.result
       /\ lastOp'.result = isOrphanedNode(graph, lastOp'.to)
       /\ graph' = graph]_gvars

\* a node that the root reaches only through another node, and into which no
\* edge of type 1 leads, was found not orphaned
C22_Witness ==
  /\ lastOp.op = "isOrphanedNode" /\ ~lastOp.threw /\ ~lastOp.result
  /\ graph.rootNodeId # Null /\ lastOp.to # graph.rootNodeId
  /\ ~\E e \in Range(graph.edges) : e.from = graph.rootNodeId /\ e.to = lastOp.to
  /\ ~\E e \in Range(graph.edges) : e.to = lastOp.to /\ e.type = 1

\* C26: removeEdge on an existing edge and removeNode on an existing node never
\* throw, whatever the shape of the subgraph pruned by their orphan cascade
C26_NoCascadeThrow ==
  [][(/\ lastOp'.op \in {"removeEdge", "removeNode"}
      /\ lastOp'.op = "removeEdge" =>
            hasEdge(graph, lastOp'.from, lastOp'.to, lastOp'.type)
      /\ lastOp'.op = "removeNode" => hasNode(graph, lastOp'.to)) =>
       ~lastOp'.threw]_gvars

\* ------------------------------------------------- propagation claims, continued
\* the up asset visitor applied once more to asset x of graph g
Revisited(g, x) ==
  upVisit(NewCall(g), x, getIncomingDependencies(g, x), getNodeIdsConnectedFrom(g, x)).c.g

\* re-applying the up visitor to x changes no incoming dependency's usedSymbolsUp
AtFixpoint(g, x) ==
  \A I \in Range(getIncomingDependencies(g, x)) :
    equalMap(Revisited(g, x).nodes[I].usedSymbolsUp, g.nodes[I].usedSymbolsUp)

\* C23: when propagateSymbols has returned, the up pass has reached a
\* fixpoint: re-applying the up asset visitor to any asset would change no
\* incoming dependency's usedSymbolsUp
C23_Fixpoint == Returned => \A x \in Assets : AtFixpoint(ag, x)

Fresh(g) ==
  [g EXCEPT !.nodes =
     [n \in DOMAIN g.nodes |->
        IF g.nodes[n].type = "asset"
          THEN [g.nodes[n] EXCEPT !.usedSymbols = {}, !.usedSymbolsDownDirty = TRUE,
                                  !.usedSymbolsUpDirty = TRUE]
        ELSE IF g.nodes[n].type = "dependency"
          THEN [g.nodes[n] EXCEPT
                  !.usedSymbolsDown = IF g.nodes[n].sourceAssetId = Null THEN @ ELSE <<>>,
                  !.usedSymbolsUp = <<>>, !.excluded = FALSE,
                  !.usedSymbolsDownDirty = TRUE, !.usedSymbolsUpDirtyDown = TRUE,
                  !.usedSymbolsUpDirtyUp = TRUE]
        ELSE [g.nodes[n] EXCEPT !.usedSymbolsDownDirty = FALSE]]]

\* propagateSymbols on the fresh graph with every asset changed
FromScratch(g, pad) ==
  propagateSymbols(Fresh(g), SetToSeq(NodesOfType(g, "asset")), <<>>, <<>>,
                   Cardinality(DOMAIN g.nodes) + pad)

\* the call returned and ended with symbol state st
EndsWith(c, st) == ~c.g.threw /\ ~c.diverged /\ SymbolState(c.g) = st

\* C25: after an asset's symbols changed and propagateSymbols was re-run with
\* that asset in changedAssets, usedSymbols, usedSymbolsDown, usedSymbolsUp and
\* excluded of every node equal the values obtained by propagating the same
\* graph from a fresh state
C25_IncrementalEqualsScratch ==
  [][(/\ last.kind = "mutate" /\ last.mutation = "symbols"
      /\ last'.kind = "propagate" /\ ~last'.threw /\ ~last'.diverged) =>
       EndsWith(FromScratch(ag, last'.pad), SymbolState(ag'))]_pvars

\* ------------------------------------------------------ visitor claims
\* reexportedSymbols as the first loop of the up visitor of A computes it
ReexportedSymbols(g, A) ==
  upOutgoing([c |-> NewCall(g), rx |-> <<>>, src |-> <<>>], A,
             getNodeIdsConnectedFrom(g, A), 1).rx

\* what the resolution rule yields for s requested from A: the set of one
\* pair, or the empty set when A neither provides nor re-exports s
RuleValue(asset, A, rx, s) ==
  IF ~asset.hasSymbols \/ asset.isolated \/ s = Star \/ s \in asset.usedSymbols
    THEN {Res(A, s)}
  ELSE IF MapHas(rx, s)
    THEN (IF ~asset.sideEffects /\ MapGet(rx, s) # NoRes THEN {MapGet(rx, s)}
          ELSE {Res(A, s)})
  ELSE {}

\* a value written to usedSymbolsUp passes through the ambiguity merger: it is
\* stored unless the map of before the visit holds another pair for s
Stored(old, s, v) == IF MapHas(old, s) /\ MapGet(old, s) # v THEN NoRes ELSE v

\* the up visit of A reported that the resolution of I does not export s
Reported(step, A, I, s) ==
  \E k \in DOMAIN step.diagnostics[A] :
     step.diagnostics[A][k].dep = I /\ step.diagnostics[A][k].symbol = s

\* the rule for one incoming dependency I of A over an up visit from g to h
ResolvedByRule(g, h, step, A, I) ==
  LET rx == ReexportedSymbols(g, A)
      old == g.nodes[I].usedSymbolsUp
      new == h.nodes[I].usedSymbolsUp
  IN /\ MapKeys(new) \subseteq Range(g.nodes[I].usedSymbolsDown)
     /\ \A s \in Range(g.nodes[I].usedSymbolsDown) :
          \E vs \in {RuleValue(g.nodes[A], A, rx, s)} :
            IF vs = {}
              THEN /\ ~MapHas(new, s)
                   /\ Reported(step, A, I, s) <=> ~isNamespaceDep(g.nodes[I])
              ELSE /\ MapHas(new, s)
                   /\ \A v \in vs : MapGet(new, s) = Stored(old, s, v)
                   /\ ~Reported(step, A, I, s)

\* C27: in the up visit of asset A, for every incoming dependency I with
\* declared symbols and every s of I.usedSymbolsDown: when A has no symbols,
\* is isolated, s is `*` or A.usedSymbols holds s, s resolves to {A, s};
\* otherwise when s is in reexportedSymbols it resolves to the recorded
\* resolution if A has no side effects and the record is not null, else to
\* {A, s}; otherwise s is absent from I.usedSymbolsUp and a 'does not export'
\* diagnostic is produced unless I declares `*` -> `*`.  A resolution is
\* written through the ambiguity merger.
C27_ResolutionRule ==
  [][(last'.kind = "upVisit" /\ last'.visited /\ ~last'.threw) =>
       \A I \in Range(getIncomingDependencies(ag, last'.asset)) :
          ag.nodes[I].hasSymbols => ResolvedByRule(ag, ag', last', last'.asset, I)]_pvars

\* A was visited by the up pass and the entry dependency got a resolution
\* forwarded from a re-export: a symbol of B or of X
C27_Witness ==
  /\ last.kind = "upVisit" /\ last.visited /\ last.asset = Id.a
  /\ \E k \in DOMAIN ag.nodes[Id.d1].usedSymbolsUp :
        ag.nodes[Id.d1].usedSymbolsUp[k].asset \in {Id.b, Id.x}

\* --- the down visit of last'.asset, seen from outside
\* what the incoming dependencies request from A before the visit
Requested(g, step) ==
  downRequested(g, step.asset, getIncomingDependencies(g, step.asset), step.outgoing)

\* the gate of the distribution, for a given content of A.usedSymbols
GateOpen(asset, rq, used) ==
  asset.sideEffects \/ rq.addAll \/ rq.isEntry \/ used # {}
    \/ Len(rq.namespaceReexportedSymbols) > 0

\* sym is a weak symbol of a dependency whose local A re-exports
IsReexport(asset, sym) ==
  asset.hasSymbols /\ sym.weak /\ assetSymbolsInverse(asset, sym.local) # {}

\* A uses the re-export: the namespace or one of the names R it is exported as
ReexportUsed(asset, sym, used) ==
  Star \in used \/ assetSymbolsInverse(asset, sym.local) \cap used # {}

\* the declared symbols of a dependency other than `*` -> `*`
Named(dep) == {dep.symbols[i] : i \in {j \in DOMAIN dep.symbols : dep.symbols[j].local # Star}}

RECURSIVE UsedAfter(_, _, _, _, _)
\* A.usedSymbols after the first k outgoing dependencies were processed: the
\* requested set without the names of the re-exports forwarded so far
UsedAfter(g, asset, rq, outgoing, k) ==
  IF k = 0 THEN rq.usedSymbols
  ELSE LET ub == UsedAfter(g, asset, rq, outgoing, k - 1)
           dep == g.nodes[outgoing[k]]
       IN IF dep.hasSymbols /\ GateOpen(asset, rq, ub)
            THEN ub \ UNION {assetSymbolsInverse(asset, sym.local) :
                               sym \in {t \in Named(dep) : IsReexport(asset, t)
                                                            /\ ReexportUsed(asset, t, ub)}}
            ELSE ub

\* the symbols a `*` -> `*` dependency receives through the namespace rule
ThroughNamespace(dep, rq) ==
  IF ~isNamespaceDep(dep) THEN {}
  ELSE IF rq.addAll THEN {Star} ELSE Range(rq.namespaceReexportedSymbols)

\* the rule for the k-th outgoing dependency over a down visit from g to h
WeakSymbolsRule(g, h, step, k) ==
  LET asset == g.nodes[step.asset]
      rq == Requested(g, step)
      dep == g.nodes[step.outgoing[k]]
      down == Range(h.nodes[step.outgoing[k]].usedSymbolsDown)
      ub == UsedAfter(g, asset, rq, step.outgoing, k - 1)
  IN \A sym \in Named(dep) :
       IF IsReexport(asset, sym)
         THEN /\ sym.exported \notin ThroughNamespace(dep, rq) =>
                   (sym.exported \in down <=>
                      GateOpen(asset, rq, ub) /\ ReexportUsed(asset, sym, ub))
              /\ (GateOpen(asset, rq, ub) /\ ReexportUsed(asset, sym, ub)) =>
                   /\ sym.exported \in down
                   /\ assetSymbolsInverse(asset, sym.local)
                        \cap h.nodes[step.asset].usedSymbols = {}
         ELSE GateOpen(asset, rq, ub) => sym.exported \in down

\* C28: in the down visit of asset A, a weak declared symbol {exported s,
\* local l} of an outgoing dependency O whose local is re-exported by A as the
\* set R is added to O.usedSymbolsDown iff A.usedSymbols holds `*` or meets R,
\* and then the members of R are removed from A.usedSymbols; a non-weak
\* symbol, or one whose local A does not re-export, is always added when the
\* asset is used.  A.usedSymbols and the gate are those at the moment O is
\* processed.
C28_WeakSymbols ==
  [][(last'.kind = "downVisit" /\ last'.visited /\ ~last'.threw) =>
       /\ \A k \in DOMAIN last'.outgoing :
            ag.nodes[last'.outgoing[k]].hasSymbols => WeakSymbolsRule(ag, ag', last', k)
       /\ ag'.nodes[last'.asset].usedSymbols =
            UsedAfter(ag, ag.nodes[last'.asset], Requested(ag, last'), last'.outgoing,
                      Len(last'.outgoing))]_pvars

\* A was visited, forwarded the request for a to D2 as a re-export and no
\* longer counts a among its own used symbols
C28_Witness ==
  /\ last.kind = "downVisit" /\ last.visited /\ last.asset = Id.a
  /\ ag.nodes[Id.d2].symbols = <<Sym(SymA, Loc1, TRUE)>>
  /\ ag.nodes[Id.a].hasSymbols
  /\ SymA \in Range(ag.nodes[Id.d1].usedSymbolsDown)
  /\ SymA \in Range(ag.nodes[Id.d2].usedSymbolsDown)
  /\ SymA \notin ag.nodes[Id.a].usedSymbols

\* nothing is requested from the asset of the visit: it has no side effects,
\* every incoming dependency has symbols (no entry, no cleared symbols), and
\* the requests leave A.usedSymbols and namespaceReexportedSymbols empty
Unrequested(g, step) ==
  /\ ~g.nodes[step.asset].sideEffects
  /\ Len(getIncomingDependencies(g, step.asset)) > 0
  /\ \A I \in Range(getIncomingDependencies(g, step.asset)) : g.nodes[I].hasSymbols
  /\ Requested(g, step).usedSymbols = {}
  /\ Len(Requested(g, step).namespaceReexportedSymbols) = 0

\* C29: after the down visit of an asset A without side effects that is not
\* an entry, has no incoming dependency with cleared symbols and from which
\* the incoming dependencies request no symbol, every outgoing dependency of
\* A has an empty usedSymbolsDown.
C29_TreeShakingGate ==
  [][(last'.kind = "downVisit" /\ last'.visited /\ ~last'.threw /\ Unrequested(ag, last')) =>
       \A d \in Range(last'.outgoing) : ag'.nodes[d].usedSymbolsDown = <<>>]_pvars

\* A re-exports only a, the entry requests only b, and after the visit of A
\* its dependency D3, a plain import of b, requests nothing
C29_Witness ==
  /\ last.kind = "downVisit" /\ last.visited /\ last.asset = Id.a
  /\ ~ag.nodes[Id.a].sideEffects
  /\ ag.nodes[Id.a].symbols = <<Sym(SymA, Loc1, FALSE)>>
  /\ ag.nodes[Id.d1].usedSymbolsDown = <<SymB>>
  /\ ag.nodes[Id.a].usedSymbols = {}
  /\ ag.nodes[Id.d3].symbols = <<Sym(SymB, Loc2, FALSE)>>
  /\ ag.nodes[Id.d2].usedSymbolsDown = <<>>
  /\ ag.nodes[Id.d3].usedSymbolsDown = <<>>

\* what a down visit of A leaves: the usedSymbolsDown set of every outgoing
\* dependency and A's usedSymbols
DownOutcome(h, A, outgoing) ==
  [down |-> [d \in Range(outgoing) |-> Range(h.nodes[d].usedSymbolsDown)],
   usedSymbols |-> h.nodes[A].usedSymbols]

\* the same visit with the outgoing dependencies listed in another order
VisitedInOrder(g, A, outgoing) ==
  downVisit(NewCall(g), A, getIncomingDependencies(g, A), outgoing).g

\* C30: the usedSymbolsDown sets a down visit assigns to the outgoing
\* dependencies of an asset, and the asset's resulting usedSymbols, are the
\* same for every permutation of the list of outgoing dependencies.
C30_OrderIndependent ==
  [][(last'.kind = "downVisit" /\ last'.visited /\ ~last'.threw) =>
       \A other \in Orders(last'.outgoing) :
          DownOutcome(VisitedInOrder(ag, last'.asset, other), last'.asset, other)
            = DownOutcome(ag', last'.asset, last'.outgoing)]_pvars

\* -------------------------------------------------- ambiguity merger
\* the assets a dependency resolves to through its asset group
ResolvedAssets(g, d) == Range(getDependencyResolution(g, d))

\* what the up visit of asset x resolves s to: the set of one pair, or empty
ResolvesTo(g, x, s) == RuleValue(g.nodes[x], x, ReexportedSymbols(g, x), s)

\* the pairs the resolved assets of d resolve s to
Resolutions(g, d, s) == UNION {ResolvesTo(g, x, s) : x \in ResolvedAssets(g, d)}

\* d resolves to several assets, all of which resolve s
SeveralResolve(g, d, s) ==
  /\ Cardinality(ResolvedAssets(g, d)) > 1
  /\ \A x \in ResolvedAssets(g, d) : ResolvesTo(g, x, s) # {}

\* C31: when a dependency resolves through an asset group to several assets,
\* after propagation usedSymbolsUp[s] is null iff the up visits of those
\* assets resolve s to different (asset, symbol) pairs; when they agree, also
\* after a later incremental run made them agree, the common pair is stored.
C31_AmbiguityMerger ==
  (Returned /\ ~last.threw /\ ~last.diverged) =>
     \A d \in Deps : \A s \in Range(ag.nodes[d].usedSymbolsDown) :
        (ag.nodes[d].hasSymbols /\ SeveralResolve(ag, d, s)) =>
           /\ MapHas(ag.nodes[d].usedSymbolsUp, s)
           /\ \A v \in {MapGet(ag.nodes[d].usedSymbolsUp, s)} :
                IF Cardinality(Resolutions(ag, d, s)) > 1 THEN v = NoRes
                ELSE v \in Resolutions(ag, d, s)

\* ------------------------------------------- ambiguous-namespace fallback
\* the names of A that outgoing dependency d provides in the up visit of A:
\* through its `*` -> `*` entry, and as re-exports of its resolved symbols
\* the keys of d.usedSymbolsUp as the up visit of the source asset sees them
ResolvedKeys(g, d) ==
  IF Len(getNodeIdsConnectedFrom(g, d)) = 0
    THEN MapKeys(g.nodes[d].usedSymbolsUp) \cup Range(g.nodes[d].usedSymbolsDown)
    ELSE MapKeys(g.nodes[d].usedSymbolsUp)

\* the names of A that are re-exports of a resolved named symbol of d
ProvidesByName(g, A, d) ==
  IF ~g.nodes[d].hasSymbols \/ ~g.nodes[A].hasSymbols THEN {}
  ELSE UNION {assetSymbolsInverse(g.nodes[A],
                g.nodes[d].symbols[FindExported(g.nodes[d].symbols, s)].local) :
              s \in {t \in ResolvedKeys(g, d) \cap Range(g.nodes[d].usedSymbolsDown) :
                       FindExported(g.nodes[d].symbols, t) # 0}}

Provides(g, A, d) ==
  (IF isNamespaceDep(g.nodes[d]) THEN ResolvedKeys(g, d) \ {Default} ELSE {})
    \cup ProvidesByName(g, A, d)

\* two different outgoing dependencies of A provide the same name
ProvidedTwice(g, A) ==
  \E d1, d2 \in Range(getNodeIdsConnectedFrom(g, A)) :
     d1 # d2 /\ Provides(g, A, d1) \cap Provides(g, A, d2) # {}

\* C32: in the up visitor the ambiguous-namespace fallback (`*` is added to
\* A.usedSymbols and s resolves to {A, s}) is triggered only when s was
\* recorded before from another outgoing dependency than the one being
\* processed; a single outgoing dependency that provides s through both its
\* `*` -> `*` entry and a named weak re-export does not trigger it.
C32_FallbackNeedsTwoDeps ==
  [][(last'.kind = "upVisit" /\ last'.visited /\ ~last'.threw) =>
       /\ \A e \in last'.log : e.dep1 # e.dep2
       /\ (Star \in ag'.nodes[last'.asset].usedSymbols \ ag.nodes[last'.asset].usedSymbols)
             => ProvidedTwice(ag, last'.asset)]_pvars

\* ------------------------------------------------ `default` and namespaces
\* the down visit keeps `default` out of the namespace re-exports
DefaultNotForwardedDown(g, h, step) ==
  /\ Default \notin Range(Requested(g, step).namespaceReexportedSymbols)
  /\ \A d \in Range(step.outgoing) :
        (isNamespaceDep(g.nodes[d]) /\ Default \in Range(h.nodes[d].usedSymbolsDown))
          => declares(g.nodes[d], Default)

\* the up visit of A enters `default` into reexportedSymbols only as the
\* re-export of a named symbol
DefaultNotForwardedUp(g, A) ==
  MapHas(ReexportedSymbols(g, A), Default) =>
    \E d \in Range(getNodeIdsConnectedFrom(g, A)) : Default \in ProvidesByName(g, A, d)

\* C33: a request for `default` is never forwarded through a namespace
\* re-export: the down visit never adds it to namespaceReexportedSymbols, so
\* a `*` -> `*` dependency receives it only if it declares `default`; the up
\* visit never enters a `default` entry of the usedSymbolsUp of a `*` -> `*`
\* dependency into reexportedSymbols by the namespace rule.
C33_DefaultNotForwarded ==
  [][/\ (last'.kind = "downVisit" /\ last'.visited /\ ~last'.threw)
          => DefaultNotForwardedDown(ag, ag', last')
     /\ (last'.kind = "upVisit" /\ last'.visited /\ ~last'.threw)
          => DefaultNotForwardedUp(ag, last'.asset)]_pvars

\* the entry requests `default` from A, which does not declare it; D2 is an
\* `export *` whose usedSymbolsUp holds `default`; after the up visit of A
\* the request is unresolved
C33_Witness ==
  /\ last.kind = "upVisit" /\ last.visited /\ last.asset = Id.a
  /\ ag.nodes[Id.a].hasSymbols /\ ~ag.nodes[Id.a].isolated
  /\ ~declares(ag.nodes[Id.a], Default)
  /\ ag.nodes[Id.d1].usedSymbolsDown = <<Default>>
  /\ isNamespaceDep(ag.nodes[Id.d2])
  /\ MapHas(ag.nodes[Id.d2].usedSymbolsUp, Default)
  /\ ~MapHas(ag.nodes[Id.d1].usedSymbolsUp, Default)

\* ------------------------------------------------------------- addAll
\* the exported names an asset declares
DeclaredNames(asset) == {asset.symbols[i].exported : i \in DOMAIN asset.symbols}

\* C34: the down visitor completes without throwing for every dirty asset,
\* also for an asset without symbol table that has an incoming dependency
\* with cleared symbols and a source asset (addAll); with addAll and a table,
\* A.usedSymbols holds every declared exported name before the symbols are
\* distributed.
C34_DownVisitCompletes ==
  [][(last'.kind = "downVisit" /\ last'.visited) =>
       /\ ~last'.threw
       /\ (Requested(ag, last').addAll /\ ag.nodes[last'.asset].hasSymbols)
             => DeclaredNames(ag.nodes[last'.asset]) \subseteq Requested(ag, last').usedSymbols]_pvars

\* ------------------------------------------------- errors and dirty assets
\* C35: after propagateSymbols returns, for every asset visited during the up
\* pass these are equivalent: the returned error map has an entry for the
\* asset, the asset's last up visit returned a diagnostic, and the asset's
\* usedSymbolsUpDirty is still set.
C35_ErrorsIffDirty ==
  Returned =>
    \A n \in last.upVisited :
       /\ (n \in DOMAIN errors) <=> (Len(last.diagnostics[n]) > 0)
       /\ (n \in DOMAIN errors) <=> ag.nodes[n].usedSymbolsUpDirty

\* a call returned after visiting one asset that still reports a missing
\* export and another one that reports nothing
C35_Witness ==
  /\ Returned
  /\ \E n, m \in last.upVisited :
        /\ n \in DOMAIN errors /\ ag.nodes[n].usedSymbolsUpDirty
        /\ m \notin DOMAIN errors /\ ~ag.nodes[m].usedSymbolsUpDirty

\* ------------------------------------------------ changed dependencies
\* C36: after a down visit of asset A, every outgoing dependency of A (with
\* or without declared symbols) whose usedSymbolsDown differs from its value
\* before the visit has usedSymbolsDownDirty and usedSymbolsUpDirtyDown set
\* and is a member of changedDepsUsedSymbolsUpDirtyDown.
C36_ChangedDepsMarked ==
  [][(last'.kind = "downVisit" /\ last'.visited /\ ~last'.threw) =>
       \A d \in Range(last'.outgoing) :
          Range(ag.nodes[d].usedSymbolsDown) # Range(ag'.nodes[d].usedSymbolsDown)
            => /\ ag'.nodes[d].usedSymbolsDownDirty
               /\ ag'.nodes[d].usedSymbolsUpDirtyDown
               /\ d \in last'.changedDown]_pvars

\* the same, for the outgoing dependencies that declare symbols
C36_ChangedDepsWithSymbolsMarked ==
  [][(last'.kind = "downVisit" /\ last'.visited /\ ~last'.threw) =>
       \A d \in Range(last'.outgoing) :
          (/\ ag.nodes[d].hasSymbols
           /\ Range(ag.nodes[d].usedSymbolsDown) # Range(ag'.nodes[d].usedSymbolsDown))
            => /\ ag'.nodes[d].usedSymbolsDownDirty
               /\ ag'.nodes[d].usedSymbolsUpDirtyDown
               /\ d \in last'.changedDown]_pvars

\* ------------------------------------------------------- dfs: exit, skip
\* the positions of the enter and of the exit events of node n
EnterAt(events, n) == {i \in DOMAIN events : events[i].cb = "enter" /\ events[i].node = n}
ExitAt(events, n) == {i \in DOMAIN events : events[i].cb = "exit" /\ events[i].node = n}

\* getChildren of the traversal that ended
TraversalSide == IF lastOp.op = "traverse" THEN "from" ELSE "to"

\* a dfs call with an {enter, exit} visitor returned and stop() was not called
ExitTraversal ==
  /\ lastOp.op \in {"traverse", "traverseAncestors"}
  /\ ~lastOp.threw
  /\ lastOp.exit
  /\ \A i \in DOMAIN lastOp.events : ~lastOp.events[i].stop

\* exit(n) at position x closes the enter(n) at position i: every node entered
\* in between was exited in between unless it skipped its children, and every
\* child of n was entered before x
ClosedAt(g, side, events, i, x) ==
  /\ x > i
  /\ \A j \in (i + 1)..(x - 1) :
        (events[j].cb = "enter" /\ ~events[j].skip)
          => \E y \in ExitAt(events, events[j].node) : j < y /\ y < x
  /\ \A j \in (i + 1)..(x - 1) :
        events[j].cb = "exit" => \E y \in EnterAt(events, events[j].node) : i < y /\ y < j
  /\ \A c \in Range(getChildren(g, side, events[i].node)) :
        \E j \in EnterAt(events, c) : j < x

\* C37: in a dfs with an {enter, exit} visitor that never calls stop, exit(n)
\* is invoked exactly once for every entered node whose enter did not call
\* skipChildren, after enter(n) and after the enter and the exit of every
\* node entered beneath it (post-order).
C37_ExitPostOrder ==
  ExitTraversal =>
    \A i \in DOMAIN lastOp.events :
       (lastOp.events[i].cb = "enter" /\ ~lastOp.events[i].skip)
         => \E x \in ExitAt(lastOp.events, lastOp.events[i].node) :
               /\ ExitAt(lastOp.events, lastOp.events[i].node) = {x}
               /\ ClosedAt(graph, TraversalSide, lastOp.events, i, x)

\* a traversal in which a node is exited after a node beneath it that was
\* exited and another one that skipped its children
C37_Witness ==
  /\ ExitTraversal
  /\ \E i, j, k, x \in DOMAIN lastOp.events :
        /\ i < j /\ j < x /\ i < k /\ k < x
        /\ lastOp.events[i].cb = "enter" /\ ~lastOp.events[i].skip
        /\ x \in ExitAt(lastOp.events, lastOp.events[i].node)
        /\ lastOp.events[j].cb = "exit"
        /\ lastOp.events[k].cb = "enter" /\ lastOp.events[k].skip

\* the nodes whose enter called skipChildren
SkippedAt(events) ==
  {events[i].node : i \in {j \in DOMAIN events : events[j].cb = "enter" /\ events[j].skip}}

RECURSIVE ReachedAround(_, _, _, _)
\* the nodes reached from the set R through children of nodes outside S
ReachedAround(g, side, S, R) ==
  LET next == R \cup UNION {Range(getChildren(g, side, n)) : n \in R \ S}
  IN IF next = R THEN R ELSE ReachedAround(g, side, S, next)

\* a dfs call returned and stop() was not called
UnstoppedTraversal ==
  /\ lastOp.op \in {"traverse", "traverseAncestors"}
  /\ ~lastOp.threw
  /\ \A i \in DOMAIN lastOp.events : ~lastOp.events[i].stop

\* C38: skipChildren() called in enter(n) prevents only the traversal from n
\* into its children: exactly the nodes reachable from the start node through
\* children of nodes that did not skip are entered, each of them once.
C38_SkipChildrenScope ==
  UnstoppedTraversal =>
    /\ \A n \in DOMAIN graph.nodes : Cardinality(EnterAt(lastOp.events, n)) <= 1
    /\ {n \in DOMAIN graph.nodes : EnterAt(lastOp.events, n) # {}}
         = ReachedAround(graph, TraversalSide, SkippedAt(lastOp.events),
                         {IF lastOp.start # Null THEN lastOp.start ELSE graph.rootNodeId})

\* a node skipped its children; afterwards one of its children, reachable
\* through another node, and a remaining child of its parent were entered
C38_Witness ==
  /\ UnstoppedTraversal
  /\ \E i, k, j \in DOMAIN lastOp.events :
        /\ i < k /\ k < j
        /\ lastOp.events[i].cb = "enter" /\ lastOp.events[k].cb = "enter"
        /\ lastOp.events[j].cb = "enter"
        /\ lastOp.events[k].skip
        /\ lastOp.events[k].node \in Range(getChildren(graph, TraversalSide, lastOp.events[i].node))
        /\ lastOp.events[j].node \in Range(getChildren(graph, TraversalSide, lastOp.events[i].node))
        /\ lastOp.events[j].node \in Range(getChildren(graph, TraversalSide, lastOp.events[k].node))

\* ------------------------------------------- serialize and the node Map
\* graph.serialize() returns `nodes: this.nodes` and the constructor keeps
\* `opts.nodes`: the graph and the graph deserialized from it hold the same
\* Map object. lastOp.other is the deserialized graph; a write to the Map by
\* either graph is read by both. The adjacency list is packed into a value
\* of its own.
Serialize ==
  /\ lastOp.op = "none"
  /\ \E r \in {deserialize(serialize(graph, nodeCount))} :
       lastOp' = [op |-> "serialize", threw |-> FALSE, other |-> r.graph]
  /\ UNCHANGED <<graph, nodeCount, pvars>>

\* updateNode, removeNode, addEdge or removeEdge called on g
Mutations(g) ==
  {updateNode(g, n, "updated") : n \in 0..(MaxNodes - 1)}
    \cup {removeNode(g, n) : n \in 0..(MaxNodes - 1)}
    \cup {addEdge(g, p[1], p[2], 1) : p \in (0..(MaxNodes - 1)) \X (0..(MaxNodes - 1))}
    \cup {removeEdge(g, p[1], p[2], 1, FALSE) : p \in (0..(MaxNodes - 1)) \X (0..(MaxNodes - 1))}

\* the original graph is mutated after serialize()
MutateOriginal ==
  /\ lastOp.op = "serialize"
  /\ \E g \in Mutations(graph) :
       /\ ~g.threw
       /\ graph' = g
       /\ lastOp' = [lastOp EXCEPT !.op = "mutateOriginal", !.other.nodes = g.nodes]
  /\ UNCHANGED <<nodeCount, pvars>>

\* the deserialized graph is mutated
MutateCopy ==
  /\ lastOp.op = "serialize"
  /\ \E g \in Mutations(lastOp.other) :
       /\ ~g.threw
       /\ graph' = [graph EXCEPT !.nodes = g.nodes]
       /\ lastOp' = [lastOp EXCEPT !.op = "mutateCopy", !.other = g]
  /\ UNCHANGED <<nodeCount, pvars>>

NextSerialize == Serialize \/ MutateOriginal \/ MutateCopy

\* a graph is built and serialized, then one of the two graphs is mutated
SpecSerialize == InitTraverse /\ [][NextSerialize]_vars

\* C39: the value serialize() returns is self-contained: mutating the original
\* graph after serialize(), or the graph deserialized from it, does not
\* change the other graph's node map or edges.
C39_SerializeOwnsData ==
  [][/\ lastOp'.op = "mutateOriginal"
          => /\ lastOp'.other.nodes = lastOp.other.nodes
             /\ lastOp'.other.edges = lastOp.other.edges
     /\ lastOp'.op = "mutateCopy"
          => /\ graph'.nodes = graph.nodes
             /\ graph'.edges = graph.edges]_vars

\* the same, for the edges alone
C39_SerializeOwnsEdges ==
  [][/\ lastOp'.op = "mutateOriginal" => lastOp'.other.edges = lastOp.other.edges
     /\ lastOp'.op = "mutateCopy" => graph'.edges = graph.edges]_vars

\* --------------------------------------------- MutableAsset: flag setters
\* asset.value.flags is a bit set of FlagBits bits
FlagBits == 4

RECURSIVE BitAnd(_, _), BitOr(_, _)
\* a & b
BitAnd(a, b) ==
  IF a = 0 \/ b = 0 THEN 0
  ELSE (IF a % 2 = 1 /\ b % 2 = 1 THEN 1 ELSE 0) + 2 * BitAnd(a \div 2, b \div 2)

\* a | b
BitOr(a, b) ==
  IF a = 0 THEN b
  ELSE IF b = 0 THEN a
  ELSE (IF a % 2 = 1 \/ b % 2 = 1 THEN 1 ELSE 0) + 2 * BitOr(a \div 2, b \div 2)

\* ~flag within the width of flags
BitNot(a) == 2^FlagBits - 1 - a

\* the layouts of AssetFlags: SIDE_EFFECTS and IS_BUNDLE_SPLITTABLE are two
\* different bits
AssetFlagsLayouts ==
  {[SIDE_EFFECTS |-> 2^i, IS_BUNDLE_SPLITTABLE |-> 2^j] :
     i, j \in 0..(FlagBits - 1)} \ {[SIDE_EFFECTS |-> 2^i, IS_BUNDLE_SPLITTABLE |-> 2^i] :
                                      i \in 0..(FlagBits - 1)}

\* variant: the setter clears the bit when it is given false
setSideEffectsAssigned(AssetFlags, flags, sideEffects) ==
  IF sideEffects THEN BitOr(flags, AssetFlags.SIDE_EFFECTS)
  ELSE BitAnd(flags, BitNot(AssetFlags.SIDE_EFFECTS))

\* set sideEffects(sideEffects): `flags |= AssetFlags.SIDE_EFFECTS`
setSideEffects(AssetFlags, flags, sideEffects) ==
  BitOr(flags, AssetFlags.SIDE_EFFECTS)

\* set isBundleSplittable(isBundleSplittable): `flags |= AssetFlags.IS_BUNDLE_SPLITTABLE`
setIsBundleSplittable(AssetFlags, flags, isBundleSplittable) ==
  BitOr(flags, AssetFlags.IS_BUNDLE_SPLITTABLE)

\* get sideEffects(), get isBundleSplittable()
getSideEffects(AssetFlags, flags) == BitAnd(flags, AssetFlags.SIDE_EFFECTS) # 0
getIsBundleSplittable(AssetFlags, flags) == BitAnd(flags, AssetFlags.IS_BUNDLE_SPLITTABLE) # 0

\* a MutableAsset with any flags; lastOp holds the asset and the last call
InitAsset ==
  /\ graph = EmptyGraph /\ nodeCount = 0
  /\ IdleAssetGraph
  /\ \E AssetFlags \in AssetFlagsLayouts, flags \in 0..(2^FlagBits - 1) :
       lastOp = [op |-> "new MutableAsset", AssetFlags |-> AssetFlags, flags |-> flags,
                 value |-> FALSE, threw |-> FALSE]

\* asset.sideEffects = value
SetSideEffects ==
  /\ lastOp.op \in {"new MutableAsset", "set sideEffects", "set isBundleSplittable"}
  /\ \E value \in BOOLEAN :
       lastOp' = [lastOp EXCEPT !.op = "set sideEffects", !.value = value,
                                !.flags = setSideEffects(lastOp.AssetFlags, @, value)]
  /\ UNCHANGED <<graph, nodeCount, pvars>>

\* asset.isBundleSplittable = value
SetIsBundleSplittable ==
  /\ lastOp.op \in {"new MutableAsset", "set sideEffects", "set isBundleSplittable"}
  /\ \E value \in BOOLEAN :
       lastOp' = [lastOp EXCEPT !.op = "set isBundleSplittable", !.value = value,
                                !.flags = setIsBundleSplittable(lastOp.AssetFlags, @, value)]
  /\ UNCHANGED <<graph, nodeCount, pvars>>

NextAsset == SetSideEffects \/ SetIsBundleSplittable

SpecAsset == InitAsset /\ [][NextAsset]_vars

\* the bits of flags other than bit
OtherBits(flags, bit) == BitAnd(flags, BitNot(bit))

\* C40: the MutableAsset setters sideEffects and isBundleSplittable are
\* monotonic: assigning any value, true or false, sets the flag bit and
\* leaves all other flag bits unchanged, the getter returns true afterwards
\* and no later call of these setters clears the flag.
C40_SettersMonotonic ==
  [][/\ lastOp'.op = "set sideEffects"
          => /\ getSideEffects(lastOp'.AssetFlags, lastOp'.flags)
             /\ OtherBits(lastOp'.flags, lastOp.AssetFlags.SIDE_EFFECTS)
                  = OtherBits(lastOp.flags, lastOp.AssetFlags.SIDE_EFFECTS)
     /\ lastOp'.op = "set isBundleSplittable"
          => /\ getIsBundleSplittable(lastOp'.AssetFlags, lastOp'.flags)
             /\ OtherBits(lastOp'.flags, lastOp.AssetFlags.IS_BUNDLE_SPLITTABLE)
                  = OtherBits(lastOp.flags, lastOp.AssetFlags.IS_BUNDLE_SPLITTABLE)
     /\ getSideEffects(lastOp.AssetFlags, lastOp.flags)
          => getSideEffects(lastOp'.AssetFlags, lastOp'.flags)
     /\ getIsBundleSplittable(lastOp.AssetFlags, lastOp.flags)
          => getIsBundleSplittable(lastOp'.AssetFlags, lastOp'.flags)]_vars

\* false was assigned to sideEffects: both flags and another bit are set
C40_Witness ==
  /\ lastOp.op = "set sideEffects" /\ ~lastOp.value
  /\ getSideEffects(lastOp.AssetFlags, lastOp.flags)
  /\ getIsBundleSplittable(lastOp.AssetFlags, lastOp.flags)
  /\ lastOp.flags # BitOr(lastOp.AssetFlags.SIDE_EFFECTS, lastOp.AssetFlags.IS_BUNDLE_SPLITTABLE)
====
